---------------------------- MODULE Spec2Model ----------------------------
(***************************************************************************)
(* A model of the RON codec core: the pretty-printing Formatter            *)
(* (src/src/pretty.rs), the text Serializer that drives it                 *)
(* (src/src/ser.rs), the dynamic Value tree (src/src/value/mod.rs), its    *)
(* Serialize impl (src/src/value/ser.rs), the transcoder                   *)
(* (src/src/value/transcode_ser.rs) and the error model                    *)
(* (src/src/error.rs).                                                     *)
(*                                                                         *)
(* Text is a sequence of one-character strings.  Integer widths are scaled *)
(* down (TLC integers are 32 bits wide): the integer types keep their      *)
(* two's-complement behaviour and their order of widths at I8_BITS,        *)
(* I16_BITS, I32_BITS, I64_BITS and I128_BITS bits.                        *)
(***************************************************************************)
EXTENDS Integers, Sequences, FiniteSets, TLC

VARIABLES
    \* Spec: one render, call by call
    ser,         \* the text Serializer { writer, formatter } of the render
    stack,       \* the Compound handles open in the source's serialize calls
    started,     \* the root value has been handed to the Serializer
    last_sep,    \* what the latest begin-member call wrote before a later sibling
    last_begin,  \* what the latest begin-member call wrote, and for which member
    last_close,  \* what the latest end_* call wrote, after what, for which container
    count,       \* the number of values serialized so far (map keys apart)
    \* SpecCodec: the public entry points on one source or one Value
    source,      \* the structured source handed to to_string and to_value
    value,       \* the Value: the Result of to_value(source), or built directly
    text,        \* the Serializer as to_string(source) left it
    renders,     \* the Serializers as the calls to_string(value) left them, in order
    formatter,   \* the Formatter of the latest to_writer call, as it was dropped
    copy,        \* the Result of to_value(&value), the Value transcoded once more
    \* SpecMap: two maps, transcoded and compared
    left, right, \* each a map source and the Result of to_value on it
    cmp,         \* the outcome of left == right and what each fed its hasher
    \* SpecError: an Error displayed, and an Error built from a string
    err_in,      \* the Error displayed
    err_pc,      \* "new", then "text" once err_text is set, then "built"
    err_from,    \* "display": err_text is err_in's display text; "caller": any string
    err_text,    \* the string handed to Error::custom
    err_out,     \* the outcome of Error::custom(err_text)
    \* SpecInteger: an accessor called on a Value or an Integer
    int_in,      \* the Value
    int_out,     \* the accessor called and what it returned
    \* SpecFloat: Floats compared and hashed
    flt,         \* the bit patterns of the Floats, in a sequence
    flt_out,     \* the outcomes of eq, cmp and hash on them
    \* SpecDe: a Value built from what a Deserializer reports
    de_in,       \* the visits the Deserializer makes
    de_out,      \* the Result of Value::deserialize
    \* SpecSink: one render into a sink that takes a bounded number of bytes
    sink_in,     \* the source rendered and the sink handed to to_writer
    sink_out,    \* the Serializer as to_writer left it
    \* SpecMapSer: the transcoder's MapSerializer, call by call
    ms_buf,      \* MapSerializer::buf: the pairs (key, Option<value>) pushed so far
    ms_prev,     \* buf as the latest call found it
    ms_last,     \* the latest call and what it returned
    ms_n,        \* the number of calls made
    \* the build: TRUE when integer overflow panics (debug), FALSE when it wraps
    overflow_checks

StepVars == <<ser, stack, started, last_sep, last_begin, last_close, count>>
CodecVars == <<source, value, text, renders, formatter, copy>>
MapVars == <<left, right, cmp>>
ErrorVars == <<err_in, err_pc, err_from, err_text, err_out>>

IntVars == <<int_in, int_out>>
FloatVars == <<flt, flt_out>>
DeVars == <<de_in, de_out>>
SinkVars == <<sink_in, sink_out>>
MsVars == <<ms_buf, ms_prev, ms_last, ms_n>>
AuxVars == <<IntVars, FloatVars, DeVars, SinkVars, MsVars>>

vars == <<StepVars, CodecVars, MapVars, ErrorVars, AuxVars, overflow_checks>>

-----------------------------------------------------------------------------
(* Bounds of the model *)

I8_BITS == 8
I16_BITS == 9
I32_BITS == 10
I64_BITS == 11
I128_BITS == 13
MaxNest == 2
MaxValues == 3
MaxStrLen == 4
MaxElems == 2
MaxBytes == 3
MaxRoom == 6
MaxCalls == 4
F64_BITS == 4

-----------------------------------------------------------------------------
(* Text helpers *)

NL == "\n"
TAB == "\t"
QUOTE == "\""
BACKSLASH == "\\"

RECURSIVE Pow2(_)
Pow2(n) == IF n = 0 THEN 1 ELSE 2 * Pow2(n - 1)

RECURSIVE Repeat(_, _)
Repeat(cs, n) == IF n <= 0 THEN <<>> ELSE cs \o Repeat(cs, n - 1)

RECURSIVE Concat(_)
Concat(ss) == IF ss = <<>> THEN <<>> ELSE Head(ss) \o Concat(Tail(ss))

Range(f) == {f[i] : i \in DOMAIN f}

DigitChars == <<"0", "1", "2", "3", "4", "5", "6", "7", "8", "9">>

\* lexical::ToLexical::to_lexical for an unsigned integer: its decimal digits
RECURSIVE to_lexical(_)
to_lexical(n) ==
    IF n < 10 THEN <<DigitChars[n + 1]>>
    ELSE to_lexical(n \div 10) \o <<DigitChars[(n % 10) + 1]>>

\* char::escape_debug for the characters of the model's alphabet
escape_debug_char(c) ==
    CASE c = QUOTE -> <<BACKSLASH, QUOTE>>
      [] c = BACKSLASH -> <<BACKSLASH, BACKSLASH>>
      [] c = NL -> <<BACKSLASH, "n">>
      [] c = TAB -> <<BACKSLASH, "t">>
      [] OTHER -> <<c>>

RECURSIVE escape_debug(_)
escape_debug(v) ==
    IF v = <<>> THEN <<>> ELSE escape_debug_char(Head(v)) \o escape_debug(Tail(v))

B64 == <<"A","B","C","D","E","F","G","H","I","J","K","L","M","N","O","P",
         "Q","R","S","T","U","V","W","X","Y","Z","a","b","c","d","e","f",
         "g","h","i","j","k","l","m","n","o","p","q","r","s","t","u","v",
         "w","x","y","z","0","1","2","3","4","5","6","7","8","9","+","/">>

\* base64::encode_config_buf(v, base64::STANDARD, ..): 3 bytes -> 4 sextets, '=' padded
RECURSIVE base64_encode(_)
base64_encode(v) ==
    IF Len(v) = 0 THEN <<>>
    ELSE IF Len(v) = 1 THEN
        <<B64[(v[1] \div 4) + 1], B64[((v[1] % 4) * 16) + 1], "=", "=">>
    ELSE IF Len(v) = 2 THEN
        <<B64[(v[1] \div 4) + 1],
          B64[((v[1] % 4) * 16 + (v[2] \div 16)) + 1],
          B64[((v[2] % 16) * 4) + 1], "=">>
    ELSE
        <<B64[(v[1] \div 4) + 1],
          B64[((v[1] % 4) * 16 + (v[2] \div 16)) + 1],
          B64[((v[2] % 16) * 4 + (v[3] \div 64)) + 1],
          B64[(v[3] % 64) + 1]>>
        \o base64_encode(SubSeq(v, 4, Len(v)))

-----------------------------------------------------------------------------
(* Option<&str> *)

NoName == [some |-> FALSE]
Name(n) == [some |-> TRUE, v |-> n]

-----------------------------------------------------------------------------
(* pretty.rs: Config, Indent, Formatter *)

USIZE_MAX == 2147483647

Spaces(n) == [kind |-> "Spaces", count |-> n]
Tabs(n) == [kind |-> "Tabs", count |-> n]

Indent_default == Spaces(4)

Config_default == [depth_limit |-> USIZE_MAX, indent |-> Indent_default]

\* impl Display for Indent
Indent_fmt(indent) ==
    IF indent.kind = "Spaces" THEN Repeat(<<" ">>, indent.count)
    ELSE Repeat(<<TAB>>, indent.count)

\* A Serializer { writer, formatter }: the sink's bytes, the Formatter's config,
\* depth and not_first, and the Result of the calls so far ("ok" until one fails).
Formatter_default == [config |-> Config_default, depth |-> 0, not_first |-> FALSE]

\* A W: io::Write. room is the number of bytes the sink takes before its writes
\* fail (-1: it grows without end, as a Vec<u8> does); partial tells whether a
\* failing call leaves the bytes that still fit in the sink (as a byte slice
\* does) or none of them; calls counts the write calls made on the sink and
\* failed is the number of the call that failed (0: none has).
Sink(room, partial) == [room |-> room, partial |-> partial, calls |-> 0, failed |-> 0]

Vec_new == Sink(-1, FALSE)

SerializerInto(w, f) ==
    [writer |-> <<>>, sink |-> w, config |-> f.config, depth |-> f.depth,
     not_first |-> f.not_first, res |-> "ok", msg |-> <<>>]

NewSerializer(f) == SerializerInto(Vec_new, f)

\* the bytes of cs a sink that holds `held` bytes takes, and whether the call fails
Sink_write(w, held, cs) ==
    LET free == w.room - held
    IN  IF w.room < 0 \/ Len(cs) <= free THEN [ok |-> TRUE, taken |-> cs]
        ELSE [ok |-> FALSE, taken |-> IF w.partial THEN SubSeq(cs, 1, free) ELSE <<>>]

\* write!(w, ..) that goes on writing after an earlier write has failed
io_write_unchecked(s, cs) ==
    IF s.res \notin {"ok", "io"} THEN s
    ELSE LET r == Sink_write(s.sink, Len(s.writer), cs)
             n == s.sink.calls + 1
         IN  [s EXCEPT !.writer = @ \o r.taken,
                       !.sink.calls = n,
                       !.sink.failed = IF r.ok \/ @ # 0 THEN @ ELSE n,
                       !.res = IF r.ok THEN @ ELSE "io"]

\* write!(w, ..)? / w.write_all(..)? on the sink: a call after a failed `?` never
\* runs, and a failing call makes the io::Error the Result of the render
io_write(s, cs) ==
    IF s.res # "ok" THEN s
    ELSE LET r == Sink_write(s.sink, Len(s.writer), cs)
             n == s.sink.calls + 1
         IN  [s EXCEPT !.writer = @ \o r.taken,
                       !.sink.calls = n,
                       !.sink.failed = IF r.ok THEN @ ELSE n,
                       !.res = IF r.ok THEN @ ELSE "io"]

\* write_space that writes the space whatever the depth limit
write_space_always(s) == io_write(s, <<" ">>)

write_space(s) ==
    IF s.config.depth_limit > 0 THEN io_write(s, <<" ">>) ELSE s

RECURSIVE write_indents(_, _)
\* for _ in 0..depth { write!(w, "{}", self.indent)?; }
write_indents(s, depth) ==
    IF depth = 0 THEN s
    ELSE write_indents(io_write(s, Indent_fmt(s.config.indent)), depth - 1)

\* write_indent that already leaves the newline out at the depth limit itself
write_indent_below_limit(s, depth) ==
    IF depth >= s.config.depth_limit THEN write_space(s)
    ELSE write_indents(io_write(s, <<NL>>), depth)

write_indent(s, depth) ==
    IF depth > s.config.depth_limit THEN write_space(s)
    ELSE write_indents(io_write(s, <<NL>>), depth)

write_string(s, v) == io_write(s, <<QUOTE>> \o escape_debug(v) \o <<QUOTE>>)

write_bytes(s, v) == io_write(s, <<"b", QUOTE>> \o base64_encode(v) \o <<QUOTE>>)

write_bool(s, v) == io_write(s, IF v THEN <<"t","r","u","e">> ELSE <<"f","a","l","s","e">>)

write_unsigned(s, v) == io_write(s, to_lexical(v.raw))

\* write_signed that leaves the plus sign of a positive number out
write_signed_bare(s, sign, v) ==
    write_unsigned(io_write(s, IF sign = "Positive" THEN <<>> ELSE <<"-">>), v)

write_signed(s, sign, v) ==
    write_unsigned(io_write(s, IF sign = "Positive" THEN <<"+">> ELSE <<"-">>), v)

write_char(s, v) == io_write(s, <<"'">> \o escape_debug_char(v) \o <<"'">>)

write_unit(s, v) == io_write(s, IF v.some THEN v.v ELSE <<"(", ")">>)

\* the state changes of a formatter call happen only when the call is reached
Reached(s, t) == IF s.res # "ok" THEN s ELSE t

begin_struct(s, v) ==
    Reached(s, LET s1 == [s EXCEPT !.not_first = FALSE, !.depth = @ + 1]
                   s2 == IF v.some THEN io_write(s1, v.v) ELSE s1
               IN  io_write(s2, <<"(">>))

begin_struct_field(s, v) ==
    Reached(s, LET s1 == IF s.not_first THEN io_write(s, <<",">>) ELSE s
                   s2 == write_indent(s1, s.depth)
               IN  IF v.some THEN write_space(io_write(s2, v.v \o <<":">>)) ELSE s2)

end_struct_field(s) == Reached(s, [s EXCEPT !.not_first = TRUE])

\* end_struct that closes a non-empty struct with a comma after its last field
end_struct_trailing_comma(s) ==
    Reached(s, LET s1 == [s EXCEPT !.depth = @ - 1]
                   s2 == IF s1.not_first THEN write_indent(io_write(s1, <<",">>), s1.depth)
                         ELSE s1
                   s3 == Reached(s2, [s2 EXCEPT !.not_first = TRUE])
               IN  io_write(s3, <<")">>))

end_struct(s) ==
    Reached(s, LET s1 == [s EXCEPT !.depth = @ - 1]
                   s2 == IF s1.not_first THEN write_indent(s1, s1.depth) ELSE s1
                   s3 == Reached(s2, [s2 EXCEPT !.not_first = TRUE])
               IN  io_write(s3, <<")">>))

begin_map(s) ==
    Reached(s, io_write([s EXCEPT !.not_first = FALSE, !.depth = @ + 1], <<"{">>))

begin_map_key(s) ==
    Reached(s, LET s1 == IF s.not_first THEN io_write(s, <<",">>) ELSE s
               IN  write_indent(s1, s.depth))

end_map_key(s) == Reached(s, [s EXCEPT !.not_first = TRUE])

begin_map_value(s) == Reached(s, write_space(io_write(s, <<":">>)))

end_map_value(s) == Reached(s, [s EXCEPT !.not_first = TRUE])

\* end_map that leaves the depth as begin_map raised it
end_map_keeping_depth(s) ==
    Reached(s, LET s2 == IF s.not_first THEN write_indent(s, s.depth - 1) ELSE s
                   s3 == Reached(s2, [s2 EXCEPT !.not_first = TRUE])
               IN  io_write(s3, <<"}">>))

end_map(s) ==
    Reached(s, LET s1 == [s EXCEPT !.depth = @ - 1]
                   s2 == IF s1.not_first THEN write_indent(s1, s1.depth) ELSE s1
                   s3 == Reached(s2, [s2 EXCEPT !.not_first = TRUE])
               IN  io_write(s3, <<"}">>))

\* begin_array that leaves the not_first flag as the elements before it set it
begin_array_keeping_flag(s) ==
    Reached(s, io_write([s EXCEPT !.depth = @ + 1], <<"[">>))

begin_array(s) ==
    Reached(s, io_write([s EXCEPT !.not_first = FALSE, !.depth = @ + 1], <<"[">>))

begin_array_member(s) ==
    Reached(s, LET s1 == IF s.not_first THEN io_write(s, <<",">>) ELSE s
               IN  write_indent(s1, s.depth))

\* end_array_member that leaves the not_first flag as it finds it
end_array_member_keeping_flag(s) == Reached(s, s)

end_array_member(s) == Reached(s, [s EXCEPT !.not_first = TRUE])

end_array(s) ==
    Reached(s, LET s1 == [s EXCEPT !.depth = @ - 1]
                   s2 == IF s1.not_first THEN write_indent(s1, s1.depth) ELSE s1
                   s3 == Reached(s2, [s2 EXCEPT !.not_first = TRUE])
               IN  io_write(s3, <<"]">>))

-----------------------------------------------------------------------------
(* Fixed-width integers *)

IntMin(bits) == -Pow2(bits - 1)
IntMax(bits) == Pow2(bits - 1) - 1
UintMax(bits) == Pow2(bits) - 1

SignedBits(t) ==
    CASE t = "i8" -> I8_BITS
      [] t = "i16" -> I16_BITS
      [] t = "i32" -> I32_BITS
      [] t = "i64" -> I64_BITS
      [] t = "i128" -> I128_BITS

UnsignedBits(t) ==
    CASE t = "u8" -> I8_BITS
      [] t = "u16" -> I16_BITS
      [] t = "u32" -> I32_BITS
      [] t = "u64" -> I64_BITS
      [] t = "u128" -> I128_BITS

\* iN::abs: the minimum value has no positive counterpart; the overflow panics in
\* a build with overflow checks and wraps back to the minimum value otherwise
int_abs(v, bits) ==
    IF v = IntMin(bits)
    THEN IF overflow_checks THEN [panic |-> TRUE, v |-> 0] ELSE [panic |-> FALSE, v |-> v]
    ELSE [panic |-> FALSE, v |-> IF v < 0 THEN -v ELSE v]

\* `x as uN` of a signed x of the same width: the two's-complement bit pattern
as_unsigned(v, bits) == v % Pow2(bits)

\* `u as iN` of an unsigned u of the same width
as_signed(u, bits) == IF u > IntMax(bits) THEN u - Pow2(bits) ELSE u

\* impl From<uint> for Integer
Integer_from(i) == [raw |-> i]

-----------------------------------------------------------------------------
(* Structured sources: the calls a Serialize impl makes on a serde Serializer *)

SrcInt(t, v) == [t |-> t, v |-> v]
SrcStr(v) == [t |-> "str", s |-> v]
SrcBool(v) == [t |-> "bool", b |-> v]
SrcChar(v) == [t |-> "char", c |-> v]
SrcBytes(v) == [t |-> "bytes", bs |-> v]
SrcUnit == [t |-> "unit"]
SrcNone == [t |-> "none"]
SrcSome(x) == [t |-> "some", x |-> x]
SrcUnitStruct(name) == [t |-> "unit_struct", name |-> name]
SrcUnitVariant(variant) == [t |-> "unit_variant", name |-> variant]
SrcNewtypeStruct(name, x) == [t |-> "newtype_struct", name |-> name, x |-> x]
SrcNewtypeVariant(variant, x) == [t |-> "newtype_variant", name |-> variant, x |-> x]
SrcSeq(xs) == [t |-> "seq", xs |-> xs]
SrcTuple(xs) == [t |-> "tuple", xs |-> xs]
SrcTupleStruct(name, xs) == [t |-> "tuple_struct", name |-> name, xs |-> xs]
SrcTupleVariant(variant, xs) == [t |-> "tuple_variant", name |-> variant, xs |-> xs]
SrcMap(kvs) == [t |-> "map", kvs |-> kvs]
SrcStruct(name, kvs) == [t |-> "struct", name |-> name, kvs |-> kvs]
SrcStructVariant(variant, kvs) == [t |-> "struct_variant", name |-> variant, kvs |-> kvs]
SrcError(msg) == [t |-> "error", msg |-> msg]

IsSignedT(t) == t \in {"i8", "i16", "i32", "i64", "i128"}
IsUnsignedT(t) == t \in {"u8", "u16", "u32", "u64", "u128"}

-----------------------------------------------------------------------------
(* ser.rs: the text Serializer *)

Failed(s, res, msg) == IF s.res # "ok" THEN s ELSE [s EXCEPT !.res = res, !.msg = msg]

ser_serialize_i128(s, v) ==
    LET sign == IF v >= 0 THEN "Positive" ELSE "Negative"
        a == int_abs(v, I128_BITS)
    IN  IF a.panic THEN Failed(s, "panic", <<>>)
        ELSE write_signed(s, sign, Integer_from(as_unsigned(a.v, I128_BITS)))

ser_serialize_u128(s, v) == write_unsigned(s, Integer_from(v))

ser_serialize_unit_struct(s, name) == write_unit(s, Name(name))

\* serialize_seq / serialize_tuple / serialize_tuple_struct / serialize_map /
\* serialize_struct: the begin_* call that hands out the Compound
ser_serialize_seq(s) == begin_array(s)
ser_serialize_tuple(s) == begin_struct(s, NoName)
ser_serialize_tuple_struct(s, name) == begin_struct(s, Name(name))
ser_serialize_map(s) == begin_map(s)
ser_serialize_struct(s, name) == begin_struct(s, Name(name))

\* The Compound impls.  kind names the trait in use: "seq" (SerializeSeq), "tuple"
\* (SerializeTuple, SerializeTupleStruct, SerializeTupleVariant), "struct"
\* (SerializeStruct, SerializeStructVariant), "map_key" / "map_value" (SerializeMap).
\* Each serialize_element / serialize_field / serialize_key / serialize_value is
\* Compound_begin, the value's own serialize, Compound_finish.
Compound_begin(kind, s, key) ==
    CASE kind = "seq" -> begin_array_member(s)
      [] kind = "tuple" -> begin_struct_field(s, NoName)
      [] kind = "struct" -> begin_struct_field(s, Name(key))
      [] kind = "map_key" -> begin_map_key(s)
      [] kind = "map_value" -> begin_map_value(s)

Compound_finish(kind, s) ==
    CASE kind = "seq" -> end_array_member(s)
      [] kind = "tuple" -> end_struct_field(s)
      [] kind = "struct" -> end_struct_field(s)
      [] kind = "map_key" -> end_map_key(s)
      [] kind = "map_value" -> end_map_value(s)

Compound_end(kind, s) ==
    CASE kind = "seq" -> end_array(s)
      [] kind = "tuple" -> end_struct(s)
      [] kind = "struct" -> end_struct(s)
      [] kind = "map" -> end_map(s)

RECURSIVE ser_serialize(_, _)
RECURSIVE ser_elements(_, _, _)
RECURSIVE ser_fields(_, _)
RECURSIVE ser_entries(_, _)

\* serialize_newtype_struct that writes the wrapper as a tuple struct of one field
ser_serialize_newtype_struct_named(s, name, x) ==
    Compound_end("tuple",
        ser_elements("tuple", <<x>>, ser_serialize_tuple_struct(s, name)))

ser_serialize_newtype_struct(s, name, x) == ser_serialize(x, s)

\* value.serialize(&mut Serializer): the Serializer method the source x calls
ser_serialize(x, s) ==
    IF s.res # "ok" THEN s
    ELSE CASE IsSignedT(x.t) -> ser_serialize_i128(s, x.v)
           [] IsUnsignedT(x.t) -> ser_serialize_u128(s, x.v)
           [] x.t = "bool" -> write_bool(s, x.b)
           [] x.t = "char" -> write_char(s, x.c)
           [] x.t = "str" -> write_string(s, x.s)
           [] x.t = "bytes" -> write_bytes(s, x.bs)
           [] x.t = "none" -> ser_serialize_unit_struct(s, <<"N", "o", "n", "e">>)
           [] x.t = "some" ->
                Compound_end("tuple",
                    ser_elements("tuple", <<x.x>>,
                        ser_serialize_tuple_struct(s, <<"S", "o", "m", "e">>)))
           [] x.t = "unit" -> write_unit(s, NoName)
           [] x.t \in {"unit_struct", "unit_variant"} -> ser_serialize_unit_struct(s, x.name)
           [] x.t = "newtype_struct" -> ser_serialize_newtype_struct(s, x.name, x.x)
           [] x.t = "newtype_variant" ->
                Compound_end("tuple",
                    ser_elements("tuple", <<x.x>>, ser_serialize_tuple_struct(s, x.name)))
           [] x.t = "seq" ->
                Compound_end("seq", ser_elements("seq", x.xs, ser_serialize_seq(s)))
           [] x.t = "tuple" ->
                Compound_end("tuple", ser_elements("tuple", x.xs, ser_serialize_tuple(s)))
           [] x.t \in {"tuple_struct", "tuple_variant"} ->
                Compound_end("tuple",
                    ser_elements("tuple", x.xs, ser_serialize_tuple_struct(s, x.name)))
           [] x.t = "map" -> Compound_end("map", ser_entries(x.kvs, ser_serialize_map(s)))
           [] x.t \in {"struct", "struct_variant"} ->
                Compound_end("struct", ser_fields(x.kvs, ser_serialize_struct(s, x.name)))
           [] x.t = "error" -> Failed(s, "msg", x.msg)

\* serialize_element / serialize_field (unnamed) for each element in turn
ser_elements(kind, xs, s) ==
    IF xs = <<>> THEN s
    ELSE ser_elements(kind, Tail(xs),
            Compound_finish(kind, ser_serialize(Head(xs), Compound_begin(kind, s, <<>>))))

\* SerializeStruct::serialize_field(key, value) for each field in turn
ser_fields(kvs, s) ==
    IF kvs = <<>> THEN s
    ELSE ser_fields(Tail(kvs),
            Compound_finish("struct",
                ser_serialize(Head(kvs)[2], Compound_begin("struct", s, Head(kvs)[1]))))

\* SerializeMap::serialize_entry (serde's default: serialize_key, serialize_value)
ser_entries(kvs, s) ==
    IF kvs = <<>> THEN s
    ELSE LET k == Compound_finish("map_key",
                    ser_serialize(Head(kvs)[1], Compound_begin("map_key", s, <<>>)))
             v == Compound_finish("map_value",
                    ser_serialize(Head(kvs)[2], Compound_begin("map_value", k, <<>>)))
         IN  ser_entries(Tail(kvs), v)

\* to_writer with the Formatter of the call before it kept, not constructed anew
to_writer_reusing(x) == ser_serialize(x, NewSerializer(formatter))

\* to_writer: a fresh Serializer { writer, formatter: Formatter::default() }
to_writer(x) == ser_serialize(x, NewSerializer(Formatter_default))

\* to_writer(w, &x) with a sink w of the caller
to_writer_into(w, x) == ser_serialize(x, SerializerInto(w, Formatter_default))

\* the Formatter inside a Serializer
FormatterOf(s) == [config |-> s.config, depth |-> s.depth, not_first |-> s.not_first]

-----------------------------------------------------------------------------
(* value/mod.rs: the Value tree *)

NoFields == [some |-> FALSE]
SomeFields(f) == [some |-> TRUE, f |-> f]
Fields_Named(kvs) == [kind |-> "Named", named |-> kvs]
Fields_Unnamed(xs) == [kind |-> "Unnamed", unnamed |-> xs]

Value_Struct(name, fields) == [tag |-> "Struct", name |-> name, fields |-> fields]
Value_Map(raw) == [tag |-> "Map", raw |-> raw]
Value_Array(xs) == [tag |-> "Array", items |-> xs]
Value_String(v) == [tag |-> "String", s |-> v]
Value_Bytes(v) == [tag |-> "Bytes", bs |-> v]
Value_Bool(v) == [tag |-> "Bool", b |-> v]
Value_Signed(sign, int) == [tag |-> "Signed", sign |-> sign, int |-> int]
Value_Unsigned(int) == [tag |-> "Unsigned", int |-> int]
Value_Char(v) == [tag |-> "Char", c |-> v]

RECURSIVE Value_eq(_, _)
RECURSIVE iter_eq(_, _)
RECURSIVE entries_eq(_, _, _)

\* Iterator::eq over two slices of Values: element by element, then both ended
iter_eq(xs, ys) ==
    IF xs = <<>> \/ ys = <<>> THEN xs = <<>> /\ ys = <<>>
    ELSE Value_eq(Head(xs), Head(ys)) /\ iter_eq(Tail(xs), Tail(ys))

\* Key: Eq: by_value for the Value keys of a Map<Value, Value>;
\* a Map<&str, Value> has names
Key_eq(by_value, a, b) == IF by_value THEN Value_eq(a, b) ELSE a = b

\* Iterator::eq over the entries of two maps: element by element, then both ended
entries_eq(by_value, xs, ys) ==
    IF xs = <<>> \/ ys = <<>> THEN xs = <<>> /\ ys = <<>>
    ELSE /\ Key_eq(by_value, Head(xs)[1], Head(ys)[1])
         /\ Value_eq(Head(xs)[2], Head(ys)[2])
         /\ entries_eq(by_value, Tail(xs), Tail(ys))

\* the equality of indexmap::IndexMap itself: the same entries, in any order
Map_eq_unordered(by_value, m1, m2) ==
    /\ Len(m1) = Len(m2)
    /\ \A i \in 1..Len(m1) : \E j \in 1..Len(m2) :
           Key_eq(by_value, m1[i][1], m2[j][1]) /\ Value_eq(m1[i][2], m2[j][2])

\* impl PartialEq for Map: self.iter().eq(other.iter())
Map_eq(by_value, m1, m2) == entries_eq(by_value, m1, m2)

Fields_eq(f, g) ==
    /\ f.kind = g.kind
    /\ IF f.kind = "Named" THEN Map_eq(FALSE, f.named, g.named)
       ELSE iter_eq(f.unnamed, g.unnamed)

\* #[derive(PartialEq)] for Value, Struct and Fields, with Map's own impl
Value_eq(a, b) ==
    /\ a.tag = b.tag
    /\ CASE a.tag = "Struct" ->
              /\ a.name = b.name
              /\ a.fields.some = b.fields.some
              /\ a.fields.some => Fields_eq(a.fields.f, b.fields.f)
         [] a.tag = "Map" -> Map_eq(TRUE, a.raw, b.raw)
         [] a.tag = "Array" -> iter_eq(a.items, b.items)
         [] OTHER -> a = b

\* impl Hash for Map: self.iter().for_each(|x| x.hash(state)): the entries handed
\* to the hasher, one after the other, onto what it was fed before
RECURSIVE Map_hash(_, _)
Map_hash(m, state) ==
    IF m = <<>> THEN state ELSE Map_hash(Tail(m), Append(state, Head(m)))

RECURSIVE IndexMap_insert(_, _, _, _)
RECURSIVE IndexMap_insert_keeping_first(_, _, _, _)

\* an insert that leaves the entry of a key already present as it is
IndexMap_insert_keeping_first(by_value, raw, k, v) ==
    IF raw = <<>> THEN <<<<k, v>>>>
    ELSE IF Key_eq(by_value, Head(raw)[1], k) THEN raw
    ELSE <<Head(raw)>> \o IndexMap_insert_keeping_first(by_value, Tail(raw), k, v)

\* indexmap::IndexMap::insert: a key already present keeps its place and takes the
\* new value; a new key goes last
IndexMap_insert(by_value, raw, k, v) ==
    IF raw = <<>> THEN <<<<k, v>>>>
    ELSE IF Key_eq(by_value, Head(raw)[1], k) THEN <<<<Head(raw)[1], v>>>> \o Tail(raw)
    ELSE <<Head(raw)>> \o IndexMap_insert(by_value, Tail(raw), k, v)

\* impl FromIterator<(Key, Val)> for Map: collect into the IndexMap
RECURSIVE Map_collect(_, _, _)
Map_collect(by_value, raw, kvs) ==
    IF kvs = <<>> THEN raw
    ELSE Map_collect(by_value, IndexMap_insert(by_value, raw, Head(kvs)[1], Head(kvs)[2]),
                     Tail(kvs))

Map_from_iter(by_value, kvs) == Map_collect(by_value, <<>>, kvs)

NoInt == [some |-> FALSE]
SomeInt(v) == [some |-> TRUE, v |-> v]

\* a narrowing that keeps the low bits, as an `as` cast does
Integer_as_int_truncating(i, bits) == SomeInt(i.raw % Pow2(bits))

\* sealed::uint::from_opaque: i.raw.try_into().ok()
Integer_as_int(i, bits) == IF i.raw <= UintMax(bits) THEN SomeInt(i.raw) ELSE NoInt

\* Value::as_i64 and Value::as_i128, at the width of the target type
Value_as_signed(v, bits) ==
    CASE v.tag = "Unsigned" \/ (v.tag = "Signed" /\ v.sign = "Positive") ->
            LET u == Integer_as_int(v.int, bits)
            IN  IF u.some /\ u.v <= IntMax(bits) THEN SomeInt(u.v) ELSE NoInt
      [] v.tag = "Signed" /\ v.sign = "Negative" ->
            LET u == Integer_as_int(v.int, bits)
            IN  IF ~u.some THEN NoInt
                ELSE IF u.v <= IntMax(bits) THEN SomeInt(-as_signed(u.v, bits))
                ELSE IF u.v = as_unsigned(IntMin(bits), bits)
                     THEN SomeInt(as_signed(u.v, bits))
                ELSE NoInt
      [] OTHER -> NoInt

Value_as_i64(v) == Value_as_signed(v, I64_BITS)
Value_as_i128(v) == Value_as_signed(v, I128_BITS)

\* Value::as_u64 and Value::as_u128
Value_as_unsigned(v, bits) ==
    IF v.tag = "Unsigned" \/ (v.tag = "Signed" /\ v.sign = "Positive")
    THEN Integer_as_int(v.int, bits)
    ELSE NoInt

Value_as_u64(v) == Value_as_unsigned(v, I64_BITS)
Value_as_u128(v) == Value_as_unsigned(v, I128_BITS)

-----------------------------------------------------------------------------
(* value/mod.rs: Float.  An f64 is its sign, exponent and mantissa fields, at *)
(* a width scaled down to F64_BITS bits; i64 and u64 here are F64_BITS wide.  *)

F64_MANT == (F64_BITS - 1) \div 3
F64_EXP == F64_BITS - 1 - F64_MANT
F64_EXP_MAX == Pow2(F64_EXP) - 1

F64 == [sign : {0, 1}, exp : 0..F64_EXP_MAX, mant : 0..(Pow2(F64_MANT) - 1)]

\* f64::to_bits
to_bits(f) == f.sign * Pow2(F64_EXP + F64_MANT) + f.exp * Pow2(F64_MANT) + f.mant

is_nan(f) == f.exp = F64_EXP_MAX /\ f.mant # 0

\* the number an f64 that is not a NaN stands for, times a fixed power of two;
\* an infinity is beyond every finite number
f64_magnitude(f) ==
    IF f.exp = 0 THEN f.mant
    ELSE IF f.exp = F64_EXP_MAX THEN Pow2(F64_EXP_MAX + F64_MANT)
    ELSE Pow2(f.exp - 1) * (Pow2(F64_MANT) + f.mant)

f64_number(f) == IF f.sign = 1 THEN -f64_magnitude(f) ELSE f64_magnitude(f)

\* impl From<f64> for Float
Float_from(f) == [raw |-> f]

\* i64::cmp
Ord_cmp(a, b) == IF a < b THEN "Less" ELSE IF a = b THEN "Equal" ELSE "Greater"

\* the == of f64: no NaN equals anything, and -0.0 equals +0.0
Float_eq_ieee(a, b) ==
    ~is_nan(a.raw) /\ ~is_nan(b.raw) /\ f64_number(a.raw) = f64_number(b.raw)

\* impl PartialEq for Float
Float_eq(a, b) == to_bits(a.raw) = to_bits(b.raw)

\* impl Ord for Float
Float_cmp(a, b) ==
    Ord_cmp(as_signed(to_bits(a.raw), F64_BITS), as_signed(to_bits(b.raw), F64_BITS))

\* impl PartialOrd for Float
Float_partial_cmp(a, b) == [some |-> TRUE, v |-> Float_cmp(a, b)]

\* impl Hash for Float: state.write_i64(bits as i64)
Float_hash(a, state) == Append(state, as_signed(to_bits(a.raw), F64_BITS))

-----------------------------------------------------------------------------
(* value/ser.rs: impl Serialize for Value, Struct and Map: the source a Value is *)

MSG_SIGNED ==
    <<"s","i","g","n","e","d"," ","i","n","t","e","g","e","r"," ",
      "o","u","t","s","i","d","e"," ","i","1","2","8"," ","r","a","n","g","e">>

MSG_UNSIGNED ==
    <<"u","n","s","i","g","n","e","d"," ","i","n","t","e","g","e","r"," ",
      "o","u","t","s","i","d","e"," ","u","1","2","8"," ","r","a","n","g","e">>

RECURSIVE Value_serialize(_)
RECURSIVE Values_serialize(_)
RECURSIVE Named_serialize(_)
RECURSIVE Entries_serialize(_)

Values_serialize(xs) ==
    IF xs = <<>> THEN <<>> ELSE <<Value_serialize(Head(xs))>> \o Values_serialize(Tail(xs))

Named_serialize(kvs) ==
    IF kvs = <<>> THEN <<>>
    ELSE <<<<Head(kvs)[1], Value_serialize(Head(kvs)[2])>>>> \o Named_serialize(Tail(kvs))

Entries_serialize(kvs) ==
    IF kvs = <<>> THEN <<>>
    ELSE <<<<Value_serialize(Head(kvs)[1]), Value_serialize(Head(kvs)[2])>>>>
         \o Entries_serialize(Tail(kvs))

\* impl Serialize for Struct
Struct_serialize(v) ==
    CASE v.name.some /\ v.fields.some /\ v.fields.f.kind = "Named" ->
            SrcStruct(v.name.v, Named_serialize(v.fields.f.named))
      [] v.name.some /\ v.fields.some /\ v.fields.f.kind = "Unnamed" ->
            SrcTupleStruct(v.name.v, Values_serialize(v.fields.f.unnamed))
      [] v.name.some /\ ~v.fields.some -> SrcUnitStruct(v.name.v)
      [] ~v.name.some /\ v.fields.some /\ v.fields.f.kind = "Named" ->
            SrcStruct(<<>>, Named_serialize(v.fields.f.named))
      [] ~v.name.some /\ v.fields.some /\ v.fields.f.kind = "Unnamed" ->
            SrcTuple(Values_serialize(v.fields.f.unnamed))
      [] ~v.name.some /\ ~v.fields.some -> SrcUnit

\* Vec<u8>'s Serialize: a sequence of u8 elements
Bytes_serialize(bs) == SrcSeq([i \in 1..Len(bs) |-> SrcInt("u8", bs[i])])

\* impl Serialize for Value
Value_serialize(v) ==
    CASE v.tag = "Struct" -> Struct_serialize(v)
      [] v.tag = "Map" -> SrcMap(Entries_serialize(v.raw))
      [] v.tag = "Array" -> SrcSeq(Values_serialize(v.items))
      [] v.tag = "String" -> SrcStr(v.s)
      [] v.tag = "Bytes" -> Bytes_serialize(v.bs)
      [] v.tag = "Bool" -> SrcBool(v.b)
      [] v.tag = "Signed" ->
            IF Value_as_i64(v).some THEN SrcInt("i64", Value_as_i64(v).v)
            ELSE IF Value_as_i128(v).some THEN SrcInt("i128", Value_as_i128(v).v)
            ELSE SrcError(MSG_SIGNED)
      [] v.tag = "Unsigned" ->
            IF Value_as_u64(v).some THEN SrcInt("u64", Value_as_u64(v).v)
            ELSE IF Value_as_u128(v).some THEN SrcInt("u128", Value_as_u128(v).v)
            ELSE SrcError(MSG_UNSIGNED)
      [] v.tag = "Char" -> SrcChar(v.c)

-----------------------------------------------------------------------------
(* value/transcode_ser.rs: the transcoder *)

Ok(v) == [res |-> "ok", val |-> v]
Err(msg) == [res |-> "msg", msg |-> msg]
Panic == [res |-> "panic"]

\* serialize_i64 / serialize_i128: the sign and (v.abs() as uN).into()
transcode_signed(v, bits) ==
    LET a == int_abs(v, bits)
    IN  IF a.panic THEN Panic
        ELSE Ok(Value_Signed(IF v >= 0 THEN "Positive" ELSE "Negative",
                             Integer_from(as_unsigned(a.v, bits))))

transcode_serialize_i64(v) == transcode_signed(v, I64_BITS)
transcode_serialize_i128(v) == transcode_signed(v, I128_BITS)

RECURSIVE to_value(_)
RECURSIVE transcode_elements(_, _)
RECURSIVE transcode_fields(_, _)
RECURSIVE transcode_entries(_, _)

\* SeqSerializer: serialize_element / serialize_field push to_value(value)? onto buf
transcode_elements(xs, buf) ==
    IF xs = <<>> THEN Ok(buf)
    ELSE LET r == to_value(Head(xs))
         IN  IF r.res # "ok" THEN r ELSE transcode_elements(Tail(xs), Append(buf, r.val))

\* RecSerializer::serialize_field pushes (key, to_value(value)?) onto buf
transcode_fields(kvs, buf) ==
    IF kvs = <<>> THEN Ok(buf)
    ELSE LET r == to_value(Head(kvs)[2])
         IN  IF r.res # "ok" THEN r
             ELSE transcode_fields(Tail(kvs), Append(buf, <<Head(kvs)[1], r.val>>))

\* MapSerializer::serialize_entry pushes (to_value(key)?, Some(to_value(value)?))
transcode_entries(kvs, buf) ==
    IF kvs = <<>> THEN Ok(buf)
    ELSE LET k == to_value(Head(kvs)[1])
             v == to_value(Head(kvs)[2])
         IN  IF k.res # "ok" THEN k
             ELSE IF v.res # "ok" THEN v
             ELSE transcode_entries(Tail(kvs), Append(buf, <<k.val, v.val>>))

\* a tuple end that collects the buffer as SerializeSeq::end does
SeqSerializer_end_tuple_as_array(name, r) ==
    IF r.res # "ok" THEN r ELSE Ok(Value_Array(r.val))

\* SerializeTuple / SerializeTupleStruct / SerializeTupleVariant ::end
SeqSerializer_end_tuple(name, r) ==
    IF r.res # "ok" THEN r
    ELSE Ok(Value_Struct(name, SomeFields(Fields_Unnamed(r.val))))

\* SerializeSeq::end: assert_eq!(self.name, None), then the Array
SeqSerializer_end_seq(name, r) ==
    IF r.res # "ok" THEN r
    ELSE IF name.some THEN Panic
    ELSE Ok(Value_Array(r.val))

\* SerializeMap::end: every pair's value unwrapped, collected into the Map
MapSerializer_end(r) ==
    IF r.res # "ok" THEN r ELSE Ok(Value_Map(Map_from_iter(TRUE, r.val)))

NoValue == [some |-> FALSE]
SomeValue(v) == [some |-> TRUE, v |-> v]

\* Each call on a MapSerializer gives the buf it leaves and its return: "ok",
\* an Err(Error) of to_value, or a panic (a failed assert! or unwrap).
Called(buf, ret) == [buf |-> buf, ret |-> ret]

\* serialize_key that asserts that the pair before it has got its value
MapSerializer_serialize_key_asserting(buf, key) ==
    IF buf # <<>> /\ ~buf[Len(buf)].val.some THEN Called(buf, Panic)
    ELSE LET k == to_value(key)
         IN  IF k.res # "ok" THEN Called(buf, k)
             ELSE Called(Append(buf, [key |-> k.val, val |-> NoValue]), Ok(<<>>))

\* SerializeMap::serialize_key: self.buf.push((to_value(key)?, None))
MapSerializer_serialize_key(buf, key) ==
    LET k == to_value(key)
    IN  IF k.res # "ok" THEN Called(buf, k)
        ELSE Called(Append(buf, [key |-> k.val, val |-> NoValue]), Ok(<<>>))

\* serialize_value that stores the value whatever the last pair holds
MapSerializer_serialize_value_unasserted(buf, val) ==
    IF buf = <<>> THEN Called(buf, Panic)
    ELSE LET v == to_value(val)
         IN  IF v.res # "ok" THEN Called(buf, v)
             ELSE Called([buf EXCEPT ![Len(buf)].val = SomeValue(v.val)], Ok(<<>>))

\* SerializeMap::serialize_value: last_mut().unwrap() panics on an empty buf, the
\* assert! panics when the last pair holds a value, then to_value(value)? is stored
MapSerializer_serialize_value(buf, val) ==
    IF buf = <<>> THEN Called(buf, Panic)
    ELSE IF buf[Len(buf)].val.some THEN Called(buf, Panic)
    ELSE LET v == to_value(val)
         IN  IF v.res # "ok" THEN Called(buf, v)
             ELSE Called([buf EXCEPT ![Len(buf)].val = SomeValue(v.val)], Ok(<<>>))

\* SerializeMap::serialize_entry: self.buf.push((to_value(key)?, Some(to_value(value)?)))
MapSerializer_serialize_entry(buf, key, val) ==
    LET k == to_value(key)
        v == to_value(val)
    IN  IF k.res # "ok" THEN Called(buf, k)
        ELSE IF v.res # "ok" THEN Called(buf, v)
        ELSE Called(Append(buf, [key |-> k.val, val |-> SomeValue(v.val)]), Ok(<<>>))

\* SerializeMap::end on a buf of pairs: val.unwrap() panics on a pair without a
\* value; the pairs are collected into the Map
MapSerializer_end_buf(buf) ==
    IF \E i \in DOMAIN buf : ~buf[i].val.some THEN Called(buf, Panic)
    ELSE Called(buf, MapSerializer_end(Ok([i \in DOMAIN buf |-> <<buf[i].key, buf[i].val.v>>])))

\* SerializeStruct / SerializeStructVariant ::end
RecSerializer_end(name, r) ==
    IF r.res # "ok" THEN r
    ELSE Ok(Value_Struct(Name(name), SomeFields(Fields_Named(Map_from_iter(FALSE, r.val)))))

\* a unit struct that loses its name
transcode_serialize_unit_struct_unnamed(name) == Ok(Value_Struct(NoName, NoFields))

\* serialize_unit_struct and, through it, serialize_unit_variant and serialize_none
transcode_serialize_unit_struct(name) == Ok(Value_Struct(Name(name), NoFields))

\* to_value: value.serialize(transcode_ser::Serializer)
to_value(x) ==
    CASE x.t \in {"i8", "i16", "i32", "i64"} -> transcode_serialize_i64(x.v)
      [] x.t = "i128" -> transcode_serialize_i128(x.v)
      [] IsUnsignedT(x.t) -> Ok(Value_Unsigned(Integer_from(x.v)))
      [] x.t = "bool" -> Ok(Value_Bool(x.b))
      [] x.t = "char" -> Ok(Value_Char(x.c))
      [] x.t = "str" -> Ok(Value_String(x.s))
      [] x.t = "bytes" -> Ok(Value_Bytes(x.bs))
      [] x.t = "none" -> transcode_serialize_unit_struct(<<"N", "o", "n", "e">>)
      [] x.t = "some" ->
            SeqSerializer_end_tuple(Name(<<"S", "o", "m", "e">>),
                                    transcode_elements(<<x.x>>, <<>>))
      [] x.t = "unit" -> Ok(Value_Struct(NoName, NoFields))
      [] x.t \in {"unit_struct", "unit_variant"} -> transcode_serialize_unit_struct(x.name)
      [] x.t = "newtype_struct" -> to_value(x.x)
      [] x.t = "newtype_variant" ->
            SeqSerializer_end_tuple(Name(x.name), transcode_elements(<<x.x>>, <<>>))
      [] x.t = "seq" -> SeqSerializer_end_seq(NoName, transcode_elements(x.xs, <<>>))
      [] x.t = "tuple" -> SeqSerializer_end_tuple(NoName, transcode_elements(x.xs, <<>>))
      [] x.t \in {"tuple_struct", "tuple_variant"} ->
            SeqSerializer_end_tuple(Name(x.name), transcode_elements(x.xs, <<>>))
      [] x.t = "map" -> MapSerializer_end(transcode_entries(x.kvs, <<>>))
      [] x.t \in {"struct", "struct_variant"} ->
            RecSerializer_end(x.name, transcode_fields(x.kvs, <<>>))
      [] x.t = "error" -> Err(x.msg)

-----------------------------------------------------------------------------
(* error.rs and parse.rs: Position, Error, Display, Error::custom *)

Position(line, col) == [line |-> line, col |-> col]
Position_default == Position(0, 0)

Error_Message(pos, msg) == [pos |-> pos, code |-> msg]

\* impl Display for Error, for a Code::Message
Error_fmt(e) ==
    IF e.pos # Position_default
    THEN to_lexical(e.pos.line) \o <<":">> \o to_lexical(e.pos.col) \o <<":", " ">> \o e.code
    ELSE e.code

\* str::find(':'): the 0-based index of the first colon, or -1 for None
RECURSIVE str_find_from(_, _)
str_find_from(v, i) ==
    IF i > Len(v) THEN -1
    ELSE IF v[i] = ":" THEN i - 1
    ELSE str_find_from(v, i + 1)

str_find(v) == str_find_from(v, 1)

DigitValue(c) == CHOOSE d \in 0..9 : DigitChars[d + 1] = c

IsDigit(c) == \E d \in 0..9 : DigitChars[d + 1] = c

RECURSIVE digits_value(_, _)
digits_value(v, acc) ==
    IF v = <<>> THEN acc
    ELSE IF acc * 10 + DigitValue(Head(v)) > USIZE_MAX \/ acc > USIZE_MAX \div 10 THEN -1
    ELSE digits_value(Tail(v), acc * 10 + DigitValue(Head(v)))

\* str::parse::<usize>(): an optional '+', then one or more digits, in range;
\* -1 for Err
parse_usize(v) ==
    LET digits == IF v # <<>> /\ Head(v) = "+" THEN Tail(v) ELSE v
    IN  IF digits = <<>> \/ \E i \in 1..Len(digits) : ~IsDigit(digits[i]) THEN -1
        ELSE digits_value(digits, 0)

\* &msg[from..to] with 0-based byte offsets: a panic when from > to or to > len
str_slice(v, from, to) ==
    IF from > to \/ to > Len(v) THEN [panic |-> TRUE, s |-> <<>>]
    ELSE [panic |-> FALSE, s |-> SubSeq(v, from + 1, to)]

\* Error::custom(msg): Ok(Error), or the panic of a slice out of order
Error_custom(msg) ==
    LET fallback == Ok(Error_Message(Position_default, msg))
        colon1 == str_find(msg)
        colon2 == str_find(SubSeq(msg, colon1 + 2, Len(msg)))
        line == parse_usize(SubSeq(msg, 1, colon1))
        second == str_slice(msg, colon1 + 1, colon2)
        col == parse_usize(second.s)
    IN  IF colon1 < 0 THEN fallback
        ELSE IF colon2 < 0 THEN fallback
        ELSE IF line < 0 THEN fallback
        ELSE IF second.panic THEN Panic
        ELSE IF col < 0 THEN fallback
        ELSE Ok(Error_Message(Position(line, col), SubSeq(msg, colon2 + 2, Len(msg))))

-----------------------------------------------------------------------------
(* value/de.rs: impl Deserialize for Value.  A Deserializer is the tree of    *)
(* visits it makes on the Visitor; the elements of a sequence and the entries *)
(* of a map are Deserializers themselves, read one after the other.           *)

DeBool(v) == [t |-> "bool", b |-> v]
DeI64(v) == [t |-> "i64", v |-> v]
DeI128(v) == [t |-> "i128", v |-> v]
DeU64(v) == [t |-> "u64", v |-> v]
DeU128(v) == [t |-> "u128", v |-> v]
DeChar(v) == [t |-> "char", c |-> v]
DeStr(v) == [t |-> "str", s |-> v]
DeBytes(v) == [t |-> "bytes", bs |-> v]
DeNone == [t |-> "none"]
DeSome(x) == [t |-> "some", x |-> x]
DeUnit == [t |-> "unit"]
DeNewtypeStruct(x) == [t |-> "newtype_struct", x |-> x]
DeSeq(xs) == [t |-> "seq", xs |-> xs]
DeMap(kvs) == [t |-> "map", kvs |-> kvs]
DeEnum == [t |-> "enum"]

MSG_ENUM ==
    <<"c","a","n","n","o","t"," ","d","e","s","e","r","i","a","l","i","z","e","_",
      "a","n","y"," ","a","n"," ","e","n","u","m">>

\* Result<Value, Error>: Err carries the Error
DeErr(e) == [res |-> "err", err |-> e]

\* <Error as de::Error>::custom(msg): Error::custom(msg.to_string())
de_Error_custom(msg) ==
    LET e == Error_custom(msg) IN IF e.res = "ok" THEN DeErr(e.val) ELSE Panic

\* Visitor::visit_i64 and Visitor::visit_i128
visit_signed(v, bits) ==
    LET a == int_abs(v, bits)
    IN  IF a.panic THEN Panic
        ELSE Ok(Value_Signed(IF v >= 0 THEN "Positive" ELSE "Negative",
                             Integer_from(as_unsigned(a.v, bits))))

visit_enum == de_Error_custom(MSG_ENUM)

RECURSIVE Value_deserialize(_)
RECURSIVE visit_seq_reversed(_, _)
RECURSIVE visit_seq(_, _)
RECURSIVE visit_map(_, _)

\* visit_seq that puts each element in front of the ones read before it
visit_seq_reversed(xs, arr) ==
    IF xs = <<>> THEN Ok(Value_Array(arr))
    ELSE LET el == Value_deserialize(Head(xs))
         IN  IF el.res # "ok" THEN el ELSE visit_seq_reversed(Tail(xs), <<el.val>> \o arr)

\* Visitor::visit_seq: while let Some(el) = seq.next_element()? { arr.push(el) }
visit_seq(xs, arr) ==
    IF xs = <<>> THEN Ok(Value_Array(arr))
    ELSE LET el == Value_deserialize(Head(xs))
         IN  IF el.res # "ok" THEN el ELSE visit_seq(Tail(xs), Append(arr, el.val))

\* Visitor::visit_map: while let Some((key, value)) = map.next_entry()? { m.insert(..) }
visit_map(kvs, m) ==
    IF kvs = <<>> THEN Ok(Value_Map(m))
    ELSE LET key == Value_deserialize(Head(kvs)[1])
         IN  IF key.res # "ok" THEN key
             ELSE LET val == Value_deserialize(Head(kvs)[2])
                  IN  IF val.res # "ok" THEN val
                      ELSE visit_map(Tail(kvs), IndexMap_insert(TRUE, m, key.val, val.val))

\* impl Deserialize for Value: deserializer.deserialize_any(Visitor)
Value_deserialize(d) ==
    CASE d.t = "bool" -> Ok(Value_Bool(d.b))
      [] d.t = "i64" -> visit_signed(d.v, I64_BITS)
      [] d.t = "i128" -> visit_signed(d.v, I128_BITS)
      [] d.t \in {"u64", "u128"} -> Ok(Value_Unsigned(Integer_from(d.v)))
      [] d.t = "char" -> Ok(Value_Char(d.c))
      [] d.t = "str" -> Ok(Value_String(d.s))
      [] d.t = "bytes" -> Ok(Value_Bytes(d.bs))
      [] d.t = "none" -> Ok(Value_Struct(Name(<<"N", "o", "n", "e">>), NoFields))
      [] d.t = "some" ->
            LET x == Value_deserialize(d.x)
            IN  IF x.res # "ok" THEN x
                ELSE Ok(Value_Struct(Name(<<"S", "o", "m", "e">>),
                                     SomeFields(Fields_Unnamed(<<x.val>>))))
      [] d.t = "unit" -> Ok(Value_Struct(NoName, NoFields))
      [] d.t = "newtype_struct" ->
            LET x == Value_deserialize(d.x)
            IN  IF x.res # "ok" THEN x
                ELSE Ok(Value_Struct(NoName, SomeFields(Fields_Unnamed(<<x.val>>))))
      [] d.t = "seq" -> visit_seq(d.xs, <<>>)
      [] d.t = "map" -> visit_map(d.kvs, <<>>)
      [] d.t = "enum" -> visit_enum

-----------------------------------------------------------------------------
(* What the variables of the other specifications hold while one runs *)

Pending == [res |-> "pending"]
NoSource == [t |-> "absent"]
NoContainer == [kind |-> "none", n |-> 0, depth |-> 0, before |-> "", text |-> <<>>]
NoMember == [kind |-> "none", n |-> 0, depth |-> 0, key |-> <<>>, text |-> <<>>]

StepIdle ==
    /\ ser = NewSerializer(Formatter_default)
    /\ stack = <<>>
    /\ started = FALSE
    /\ last_sep = <<>>
    /\ last_begin = NoMember
    /\ last_close = NoContainer
    /\ count = 0

CodecIdle ==
    /\ source = NoSource
    /\ value = Pending
    /\ text = Pending
    /\ renders = <<>>
    /\ formatter = [config |-> Config_default, depth |-> 0, not_first |-> FALSE]
    /\ copy = Pending

MapIdle ==
    /\ left = [src |-> NoSource, val |-> Pending]
    /\ right = [src |-> NoSource, val |-> Pending]
    /\ cmp = Pending

IntIdle == int_in = [tag |-> "absent"] /\ int_out = Pending
FloatIdle == flt = <<>> /\ flt_out = Pending
DeIdle == de_in = [t |-> "absent"] /\ de_out = Pending
SinkIdle == sink_in = [src |-> NoSource, w |-> Vec_new] /\ sink_out = Pending
MsIdle == ms_buf = <<>> /\ ms_prev = <<>> /\ ms_last = [op |-> "none"] /\ ms_n = 0
AuxIdle == IntIdle /\ FloatIdle /\ DeIdle /\ SinkIdle /\ MsIdle

ErrorIdle ==
    /\ err_in = Error_Message(Position_default, <<>>)
    /\ err_pc = "idle"
    /\ err_from = "none"
    /\ err_text = <<>>
    /\ err_out = Pending

-----------------------------------------------------------------------------
(* Spec: one render, call by call.  The source's Serialize impl is any        *)
(* well-bracketed sequence of Serializer and Compound calls; each action is   *)
(* one such call on the Serializer of to_writer, with a Formatter whose       *)
(* config is one of StepConfigs.                                              *)

StepConfigs ==
    {Config_default,
     [depth_limit |-> 0, indent |-> Spaces(4)],
     [depth_limit |-> 1, indent |-> Tabs(1)],
     [depth_limit |-> 1, indent |-> Spaces(0)]}

StepScalars == {SrcInt("i32", 1), SrcStr(<<"a">>)}
StepKeys == {<<"x">>}
StepNames == {<<"P">>}

Frame(kind) == [kind |-> kind, n |-> 0, phase |-> "key"]

\* the Compound method that takes the next value of an open container
MemberKind(f) ==
    IF f.kind = "map" THEN (IF f.phase = "key" THEN "map_key" ELSE "map_value") ELSE f.kind

\* the container after one more value has been written to it
Advance(f) ==
    IF f.kind # "map" THEN [f EXCEPT !.n = @ + 1]
    ELSE IF f.phase = "key" THEN [f EXCEPT !.phase = "value"]
    ELSE [f EXCEPT !.phase = "key", !.n = @ + 1]

Top == stack[Len(stack)]

Written(s, t) == SubSeq(t.writer, Len(s.writer) + 1, Len(t.writer))

\* a value may be serialized here: as the root, or into the innermost open
\* container.  MaxValues bounds the values of one render; the value of a map key
\* and the first element of an empty container at the deepest nesting come on top.
ValueExpected ==
    /\ ser.res = "ok"
    /\ IF stack = <<>> THEN ~started
       ELSE \/ count < MaxValues
            \/ MemberKind(Top) = "map_value"
            \/ Len(stack) = MaxNest /\ Top.n = 0 /\ MemberKind(Top) # "map_value"

KeysHere == IF stack # <<>> /\ Top.kind = "struct" THEN StepKeys ELSE {<<>>}

\* the Serializer as the value's own serialize call finds it
BeforeValue(key) ==
    IF stack = <<>> THEN ser ELSE Compound_begin(MemberKind(Top), ser, key)

\* this value follows an earlier element of the same container
IsLaterSibling == stack # <<>> /\ MemberKind(Top) # "map_value" /\ Top.n > 0

CountedAfter == IF stack # <<>> /\ MemberKind(Top) = "map_key" THEN count ELSE count + 1

SepAfter(key) == IF IsLaterSibling THEN Written(ser, BeforeValue(key)) ELSE last_sep

\* the begin_array_member / begin_struct_field / begin_map_key call of this value:
\* the container it is in, the elements written to that container before it, the
\* containers open around it, its field name and what the call wrote
BeginAfter(key) ==
    IF stack = <<>> \/ MemberKind(Top) = "map_value" THEN last_begin
    ELSE [kind |-> Top.kind, n |-> Top.n, depth |-> Len(stack), key |-> key,
          text |-> Written(ser, BeforeValue(key))]

Init ==
    /\ \E c \in StepConfigs :
          ser = NewSerializer([Formatter_default EXCEPT !.config = c])
    /\ stack = <<>>
    /\ started = FALSE
    /\ last_sep = <<>>
    /\ last_begin = NoMember
    /\ last_close = NoContainer
    /\ count = 0
    /\ overflow_checks \in BOOLEAN
    /\ CodecIdle /\ MapIdle /\ ErrorIdle /\ AuxIdle

\* a scalar value: written whole by serialize_element / serialize_field /
\* serialize_key / serialize_value, or as the root
SerializeScalar(x, key) ==
    /\ ValueExpected
    /\ LET s1 == ser_serialize(x, BeforeValue(key))
       IN  IF stack = <<>>
           THEN /\ ser' = s1
                /\ stack' = stack
           ELSE /\ ser' = Compound_finish(MemberKind(Top), s1)
                /\ stack' = [stack EXCEPT ![Len(stack)] = Advance(@)]
    /\ started' = TRUE
    /\ last_sep' = SepAfter(key)
    /\ last_begin' = BeginAfter(key)
    /\ count' = CountedAfter
    /\ UNCHANGED <<last_close, overflow_checks, AuxVars, CodecVars, MapVars, ErrorVars>>

\* a container value: the begin_* call of serialize_seq, serialize_tuple, ...
Open(kind, s1, key) ==
    /\ ValueExpected
    /\ Len(stack) < MaxNest
    /\ stack # <<>> => MemberKind(Top) # "map_key"
    /\ ser' = s1
    /\ stack' = Append(stack, Frame(kind))
    /\ started' = TRUE
    /\ last_sep' = SepAfter(key)
    /\ last_begin' = BeginAfter(key)
    /\ count' = CountedAfter
    /\ UNCHANGED <<last_close, overflow_checks, AuxVars, CodecVars, MapVars, ErrorVars>>

SerializeSeq == \E key \in KeysHere : Open("seq", ser_serialize_seq(BeforeValue(key)), key)

SerializeTuple ==
    \E key \in KeysHere : Open("tuple", ser_serialize_tuple(BeforeValue(key)), key)

SerializeTupleStruct ==
    \E key \in KeysHere, name \in StepNames :
        Open("tuple", ser_serialize_tuple_struct(BeforeValue(key), name), key)

SerializeStruct ==
    \E key \in KeysHere, name \in StepNames :
        Open("struct", ser_serialize_struct(BeforeValue(key), name), key)

SerializeMap == \E key \in KeysHere : Open("map", ser_serialize_map(BeforeValue(key)), key)

\* Compound::end of the innermost container, which ends the value of its parent
End ==
    /\ ser.res = "ok"
    /\ stack # <<>>
    /\ Top.kind = "map" => Top.phase = "key"
    /\ LET s1 == Compound_end(Top.kind, ser)
           rest == SubSeq(stack, 1, Len(stack) - 1)
       IN  /\ last_close' = [kind |-> Top.kind, n |-> Top.n, depth |-> Len(rest),
                             before |-> ser.writer[Len(ser.writer)],
                             text |-> Written(ser, s1)]
           /\ IF rest = <<>>
              THEN /\ ser' = s1
                   /\ stack' = rest
              ELSE /\ ser' = Compound_finish(MemberKind(rest[Len(rest)]), s1)
                   /\ stack' = [rest EXCEPT ![Len(rest)] = Advance(@)]
    /\ UNCHANGED <<started, last_sep, last_begin, count, overflow_checks, AuxVars,
                   CodecVars, MapVars, ErrorVars>>

Next ==
    \/ \E x \in StepScalars, key \in KeysHere : SerializeScalar(x, key)
    \/ SerializeSeq
    \/ SerializeTuple
    \/ SerializeTupleStruct
    \/ SerializeStruct
    \/ SerializeMap
    \/ End

Spec == Init /\ [][Next]_vars

-----------------------------------------------------------------------------
(* SpecCodec: the public entry points.  A structured source is rendered by    *)
(* to_string and transcoded by to_value; a Value (transcoded, or built        *)
(* directly) is rendered by to_string, any number of times.                   *)

SignedTypes == {"i8", "i16", "i32", "i64", "i128"}
UnsignedTypes == {"u8", "u16", "u32", "u64", "u128"}

SignedSources ==
    UNION {{SrcInt(t, v) : v \in IntMin(SignedBits(t))..IntMax(SignedBits(t))} :
           t \in SignedTypes}

UnsignedSources ==
    UNION {{SrcInt(t, v) : v \in {0, 1, 2, UintMax(UnsignedBits(t))}} : t \in UnsignedTypes}

STR_A == <<"a">>
STR_B == <<"b">>

ScalarSources ==
    {SrcBool(TRUE), SrcBool(FALSE), SrcStr(STR_A), SrcStr(<<"a", QUOTE, NL>>),
     SrcChar("c"), SrcChar(QUOTE), SrcUnit, SrcNone, SrcUnitStruct(<<"U">>),
     SrcUnitVariant(<<"V">>), SrcError(<<"e">>)}

SeqsUpTo(S, n) == UNION {[1..k -> S] : k \in 0..n}

ByteVals == {0, 1, 255}
ByteStrings == SeqsUpTo(ByteVals, MaxBytes)

POINT == <<"P", "o", "i", "n", "t">>

\* struct Point { x: i32, y: i32 } with x = 1, y = -2
PointSource == SrcStruct(POINT, << <<<<"x">>, SrcInt("i32", 1)>>, <<<<"y">>, SrcInt("i32", -2)>> >>)

\* a map of &str to u32: {"a": 1, "b": 2}, and the same entries as b, a
MapABSource ==
    SrcMap(<< <<SrcStr(STR_A), SrcInt("u32", 1)>>, <<SrcStr(STR_B), SrcInt("u32", 2)>> >>)

MapBASource ==
    SrcMap(<< <<SrcStr(STR_B), SrcInt("u32", 2)>>, <<SrcStr(STR_A), SrcInt("u32", 1)>> >>)

\* Option<i32>: None and Some(5)
Some5Source == SrcSome(SrcInt("i32", 5))

Leaves == {SrcInt("i32", 1), SrcStr(STR_A), SrcUnit}

Containers(E) ==
    {SrcSeq(xs) : xs \in SeqsUpTo(E, MaxElems)}
    \cup {SrcTuple(xs) : xs \in SeqsUpTo(E, MaxElems)}
    \cup {SrcTupleStruct(<<"T">>, xs) : xs \in SeqsUpTo(E, MaxElems)}
    \cup {SrcMap(kvs) : kvs \in SeqsUpTo({SrcStr(STR_A), SrcStr(STR_B)} \X E, MaxElems)}
    \cup {SrcStruct(<<"S">>, kvs) : kvs \in SeqsUpTo({<<"x">>, <<"y">>} \X E, MaxElems)}

Inner ==
    {SrcInt("i32", 1), SrcSeq(<<>>), SrcSeq(<<SrcInt("i32", 1)>>), SrcMap(<<>>),
     SrcTuple(<<SrcStr(STR_A)>>), Some5Source, SrcError(<<"e">>)}

Wrapped ==
    {SrcSome(SrcNone), SrcSome(SrcSeq(<<SrcInt("i32", 1)>>)),
     SrcNewtypeStruct(<<"N">>, SrcInt("i32", 1)), SrcNewtypeStruct(<<"N">>, PointSource),
     SrcNewtypeStruct(<<"N">>, SrcNewtypeStruct(<<"M">>, SrcStr(STR_A))),
     SrcNewtypeStruct(<<"N">>, SrcSeq(<<SrcNewtypeStruct(<<"M">>, SrcInt("i8", -1))>>)),
     SrcNewtypeStruct(<<"N">>, SrcInt("i64", IntMin(I64_BITS))),
     SrcNewtypeStruct(<<"N">>, SrcError(<<"e">>)),
     SrcNewtypeVariant(<<"W">>, SrcInt("i32", 1)),
     SrcTupleVariant(<<"V">>, <<SrcInt("i32", 1), SrcInt("i32", 1)>>),
     SrcStructVariant(<<"V">>, << <<<<"x">>, SrcInt("i32", 1)>> >>)}

Sources ==
    SignedSources \cup UnsignedSources \cup ScalarSources
    \cup {SrcBytes(bs) : bs \in ByteStrings}
    \cup {PointSource, MapABSource, MapBASource, Some5Source}
    \cup Containers(Leaves) \cup Containers(Inner) \cup Wrapped

\* Values no source transcodes to: built with the public constructors
TooBig == Value_Signed("Positive", Integer_from(IntMax(I128_BITS) + 1))
TooSmall == Value_Signed("Negative", Integer_from(UintMax(I128_BITS)))

\* magnitudes around the ends of the 64-bit and 128-bit ranges
Magnitudes ==
    {0, 1, 5, IntMax(I64_BITS), IntMax(I64_BITS) + 1, UintMax(I64_BITS),
     UintMax(I64_BITS) + 1, IntMax(I128_BITS), IntMax(I128_BITS) + 1, UintMax(I128_BITS)}

IntegerValues ==
    {Value_Signed(s, Integer_from(m)) : s \in {"Positive", "Negative"}, m \in Magnitudes}
    \cup {Value_Unsigned(Integer_from(m)) : m \in Magnitudes}

BuiltValues ==
    {Value_Bytes(bs) : bs \in ByteStrings}
    \cup IntegerValues
    \cup {TooBig, TooSmall, Value_Signed("Negative", Integer_from(0)),
          Value_Unsigned(Integer_from(UintMax(I128_BITS))),
          Value_Array(<<TooBig>>),
          Value_Array(<<Value_Unsigned(Integer_from(1)), TooSmall>>),
          Value_Array(<<Value_Array(<<TooBig>>), Value_Bool(TRUE)>>),
          Value_Map(<< <<Value_String(STR_A), TooBig>> >>),
          Value_Struct(NoName, SomeFields(Fields_Named(
              << <<<<"x">>, Value_Unsigned(Integer_from(1))>> >>))),
          Value_Struct(Name(<<"T">>), SomeFields(Fields_Unnamed(<<>>))),
          Value_Struct(Name(<<"T">>), SomeFields(Fields_Unnamed(<<TooBig>>)))}

InitCodec ==
    /\ \/ /\ source \in Sources
          /\ value = Pending
       \/ /\ source = NoSource
          /\ \E v \in BuiltValues : value = Ok(v)
    /\ text = Pending
    /\ renders = <<>>
    /\ formatter = [config |-> Config_default, depth |-> 0, not_first |-> FALSE]
    /\ copy = Pending
    /\ overflow_checks \in BOOLEAN
    /\ StepIdle /\ MapIdle /\ ErrorIdle /\ AuxIdle

\* to_string(&source)
SourceToString ==
    /\ source # NoSource
    /\ text = Pending
    /\ text' = to_writer(source)
    /\ formatter' = FormatterOf(text')
    /\ UNCHANGED <<source, value, renders, copy, overflow_checks, AuxVars, StepVars, MapVars, ErrorVars>>

\* to_value(&source)
SourceToValue ==
    /\ source # NoSource
    /\ value = Pending
    /\ value' = to_value(source)
    /\ UNCHANGED <<source, text, renders, formatter, copy, overflow_checks, AuxVars,
                   StepVars, MapVars, ErrorVars>>

\* to_string(&value), once more
ValueToString ==
    /\ value.res = "ok"
    /\ Len(renders) < 2
    /\ renders' = Append(renders, to_writer(Value_serialize(value.val)))
    /\ formatter' = FormatterOf(renders'[Len(renders')])
    /\ UNCHANGED <<source, value, text, copy, overflow_checks, AuxVars, StepVars, MapVars,
                   ErrorVars>>

NextCodec == SourceToString \/ SourceToValue \/ ValueToString

SpecCodec == InitCodec /\ [][NextCodec]_vars

-----------------------------------------------------------------------------
(* Rendering: the formatter call by call (Spec) and whole values (SpecCodec) *)

Whitespace == {" ", NL, TAB}
Closers == {")", "]", "}"}
INDENT4 == Repeat(<<" ">>, 4)

\* the first character of v at or after index i that is not whitespace
RECURSIVE NextVisible(_, _)
NextVisible(v, i) ==
    IF i > Len(v) THEN "" ELSE IF v[i] \in Whitespace THEN NextVisible(v, i + 1) ELSE v[i]

NoTrailingComma(v) ==
    \A i \in 1..Len(v) : v[i] = "," => NextVisible(v, i + 1) \notin Closers

RECURSIVE CountOf(_, _)
CountOf(c, v) ==
    IF v = <<>> THEN 0 ELSE (IF Head(v) = c THEN 1 ELSE 0) + CountOf(c, Tail(v))

\* the number of pairs of neighbouring elements in all the containers of a source
RECURSIVE Neighbours(_)
RECURSIVE NeighboursIn(_)
RECURSIVE NeighboursInFields(_)
RECURSIVE NeighboursInEntries(_)
Neighbours(x) ==
    CASE x.t \in {"seq", "tuple", "tuple_struct", "tuple_variant"} ->
             (IF Len(x.xs) > 1 THEN Len(x.xs) - 1 ELSE 0) + NeighboursIn(x.xs)
      [] x.t \in {"struct", "struct_variant"} ->
             (IF Len(x.kvs) > 1 THEN Len(x.kvs) - 1 ELSE 0) + NeighboursInFields(x.kvs)
      [] x.t = "map" ->
             (IF Len(x.kvs) > 1 THEN Len(x.kvs) - 1 ELSE 0) + NeighboursInEntries(x.kvs)
      [] x.t \in {"some", "newtype_struct", "newtype_variant"} -> Neighbours(x.x)
      [] OTHER -> 0
NeighboursIn(xs) ==
    IF xs = <<>> THEN 0 ELSE Neighbours(Head(xs)) + NeighboursIn(Tail(xs))
NeighboursInFields(kvs) ==
    IF kvs = <<>> THEN 0 ELSE Neighbours(Head(kvs)[2]) + NeighboursInFields(Tail(kvs))
NeighboursInEntries(kvs) ==
    IF kvs = <<>> THEN 0
    ELSE Neighbours(Head(kvs)[1]) + Neighbours(Head(kvs)[2]) + NeighboursInEntries(Tail(kvs))

PointText ==
    POINT \o <<"(", NL>> \o INDENT4 \o <<"x", ":", " ", "+", "1", ",", NL>>
          \o INDENT4 \o <<"y", ":", " ", "-", "2", NL, ")">>

PointTextTrailing ==
    POINT \o <<"(", NL>> \o INDENT4 \o <<"x", ":", " ", "+", "1", ",", NL>>
          \o INDENT4 \o <<"y", ":", " ", "-", "2", ",", NL, ")">>

MapABText ==
    <<"{", NL>> \o INDENT4 \o <<QUOTE, "a", QUOTE, ":", " ", "1", ",", NL>>
                \o INDENT4 \o <<QUOTE, "b", QUOTE, ":", " ", "2", NL, "}">>

MapABTextTrailing ==
    <<"{", NL>> \o INDENT4 \o <<QUOTE, "a", QUOTE, ":", " ", "1", ",", NL>>
                \o INDENT4 \o <<QUOTE, "b", QUOTE, ":", " ", "2", ",", NL, "}">>

\* C1 (as stated): under the default configuration a non-empty container has a
\* comma after every element, the last included: Point { x: 1, y: -2 } and the
\* map {"a": 1, "b": 2} render with a comma before the closing bracket's line.
C1_TrailingComma ==
    text.res = "ok" =>
        /\ source = PointSource => text.writer = PointTextTrailing
        /\ source = MapABSource => text.writer = MapABTextTrailing

\* C1 (amended): under the default configuration a container has one comma
\* between each two neighbouring elements and none after the last one:
\* Point { x: 1, y: -2 } renders as Point( NL "    x: +1," NL "    y: -2" NL )
\* and the map as { NL "    \"a\": 1," NL "    \"b\": 2" NL }.
C1_CommaBetweenElementsOnly ==
    text.res = "ok" =>
        /\ source = PointSource => text.writer = PointText
        /\ source = MapABSource => text.writer = MapABText
        /\ NoTrailingComma(text.writer)
        /\ CountOf(",", text.writer) = Neighbours(source)

C1_Witness ==
    /\ source = PointSource
    /\ text.res = "ok"
    /\ text.writer = PointText

NoneText == <<"N", "o", "n", "e">>
Some5Compact == <<"S", "o", "m", "e", "(", "+", "5", ")">>
Some5Text == <<"S", "o", "m", "e", "(", NL>> \o INDENT4 \o <<"+", "5", NL, ")">>

\* C2 (as stated): to_string of Option<i32>::None is None, and of Some(5i32) is
\* Some(+5) with nothing else between the parentheses.
C2_SomeOnOneLine ==
    text.res = "ok" =>
        /\ source = SrcNone => text.writer = NoneText
        /\ source = Some5Source => text.writer = Some5Compact

\* C2 (amended): to_string of Option<i32>::None is None, and of Some(5i32) is
\* Some( NL "    +5" NL ): the value is the one field of a tuple struct named
\* Some and stands on a line of its own, indented once.
C2_SomeIsTupleStruct ==
    text # Pending =>
        /\ source = SrcNone => text.res = "ok" /\ text.writer = NoneText
        /\ source = Some5Source => text.res = "ok" /\ text.writer = Some5Text

C2_Witness ==
    /\ source = Some5Source
    /\ text.res = "ok"
    /\ text.writer = Some5Text

\* C3: with depth_limit = 0 no newline is ever written, whatever is rendered,
\* the end_* call that closes the outermost container included.
C3_NoNewlineAtDepthLimitZero ==
    ser.config.depth_limit = 0 => NL \notin Range(ser.writer)

\* C4 (as stated): with depth_limit = 0 the text between two neighbouring
\* elements of a container is the comma and then exactly one space.
C4_CommaThenOneSpace ==
    (ser.config.depth_limit = 0 /\ last_sep # <<>>) =>
        /\ Len(last_sep) >= 2
        /\ last_sep[1] = ","
        /\ last_sep[2] = " "
        /\ CountOf(" ", last_sep) = 1
        /\ NL \notin Range(last_sep)

\* C4 (amended): with depth_limit = 0 the text between two neighbouring
\* elements of a container is the comma alone (and the name and colon of a
\* struct field), with no space and no newline.
C4_CommaAlone ==
    (ser.config.depth_limit = 0 /\ last_sep # <<>>) =>
        /\ last_sep[1] = ","
        /\ Range(last_sep) \cap Whitespace = {}
        /\ CountOf(",", last_sep) = 1

C4_Witness ==
    /\ ser.config.depth_limit = 0
    /\ last_sep = <<",">>
    /\ Len(stack) = 1
    /\ Top.kind = "seq"
    /\ Top.n = 2

\* what a begin-member call wrote after its comma, if it wrote one
AfterComma(m) == IF m.n > 0 /\ m.text # <<>> /\ Head(m.text) = "," THEN Tail(m.text) ELSE m.text

\* the name and colon of a struct field, which follow the indent step
FieldLabel(m, space) == IF m.kind = "struct" THEN m.key \o <<":">> \o space ELSE <<>>

IndentUnit(indent) ==
    Repeat(IF indent.kind = "Spaces" THEN <<" ">> ELSE <<TAB>>, indent.count)

NewlineAndIndent(d) == <<NL>> \o Repeat(IndentUnit(ser.config.indent), d)

\* C18 (as stated): before every element, field or map key at nesting depth d
\* the formatter writes, after the comma if there is one, a newline and d indent
\* units when d <= depth_limit, and exactly one space when d > depth_limit.
C18_IndentStepOrOneSpace ==
    last_begin.kind # "none" =>
        LET d == last_begin.depth
            step == IF d <= ser.config.depth_limit THEN NewlineAndIndent(d) ELSE <<" ">>
        IN  \E space \in {<<>>, <<" ">>} :
                AfterComma(last_begin) = step \o FieldLabel(last_begin, space)

\* C18 (amended): as stated when d <= depth_limit; when d > depth_limit the
\* formatter writes one space if depth_limit > 0 and nothing if depth_limit = 0.
C18_IndentStep ==
    last_begin.kind # "none" =>
        LET d == last_begin.depth
            limit == ser.config.depth_limit
            space == IF limit > 0 THEN <<" ">> ELSE <<>>
            step == IF d <= limit THEN NewlineAndIndent(d) ELSE space
        IN  AfterComma(last_begin) = step \o FieldLabel(last_begin, space)

\* with a depth limit of 1 and an indent of one tab, the first element of a
\* sequence that is itself the first element of a container
C18_Witness ==
    /\ ser.config = [depth_limit |-> 1, indent |-> Tabs(1)]
    /\ Len(ser.writer) > 3 /\ ser.writer[2] = NL /\ ser.writer[3] = TAB
    /\ last_begin.kind = "seq"
    /\ last_begin.depth = 2
    /\ last_begin.text = <<" ">>

OpenBracket(kind) ==
    CASE kind = "seq" -> "[" [] kind = "map" -> "{" [] OTHER -> "("

CloseBracket(kind) ==
    CASE kind = "seq" -> "]" [] kind = "map" -> "}" [] OTHER -> ")"

\* the indent step of the formatter at depth d
IndentStepAt(d) ==
    IF d <= ser.config.depth_limit THEN NewlineAndIndent(d)
    ELSE IF ser.config.depth_limit > 0 THEN <<" ">> ELSE <<>>

\* C19: an end_* call that closes a container no element was written to writes
\* the closing bracket alone, right after the opening bracket, whatever the
\* depth and whatever was written before the container was opened; one that
\* closes a container with elements writes one indent step of the depth left
\* after the decrement, and then the bracket.
C19_ClosingBracket ==
    last_close.kind # "none" =>
        IF last_close.n = 0
        THEN /\ last_close.text = <<CloseBracket(last_close.kind)>>
             /\ last_close.before = OpenBracket(last_close.kind)
        ELSE last_close.text =
                IndentStepAt(last_close.depth) \o <<CloseBracket(last_close.kind)>>

\* [ .., [] ]: an empty sequence closed right after an element of the sequence
\* around it was written
C19_Witness ==
    /\ last_close.kind = "seq"
    /\ last_close.n = 0
    /\ last_close.depth = 1
    /\ Len(stack) = 1 /\ Top.kind = "seq" /\ Top.n = 2
    /\ last_sep # <<>>

\* C20: the begin_array_member / begin_struct_field / begin_map_key call of an
\* element writes a comma, one and first of all, exactly when an element of
\* the same innermost open container was written before it: not for the first
\* element after a begin_*, whatever was written before that begin_*, and so
\* for the element after a nested container, empty or not, that was closed.
C20_CommaIffEarlierSibling ==
    last_begin.kind # "none" =>
        /\ last_begin.n > 0 <=> (last_begin.text # <<>> /\ Head(last_begin.text) = ",")
        /\ CountOf(",", last_begin.text) = (IF last_begin.n > 0 THEN 1 ELSE 0)

\* [ .., [ x : the first element of a sequence opened after an element of the
\* sequence around it
C20_Witness ==
    /\ last_begin.kind = "seq"
    /\ last_begin.n = 0
    /\ last_begin.depth = 2
    /\ Len(stack) = 2 /\ stack[1].kind = "seq" /\ stack[1].n = 1 /\ Top.n = 1
    /\ "," \notin Range(last_begin.text)

\* [ [], x : the element after an empty sequence that was opened and closed
C20_WitnessAfterClose ==
    /\ last_close.kind = "seq" /\ last_close.n = 0 /\ last_close.depth = 1
    /\ last_begin.kind = "seq" /\ last_begin.n = 1 /\ last_begin.depth = 1
    /\ Len(stack) = 1 /\ Top.n = 2
    /\ Head(last_begin.text) = ","

\* C21: at every point of a render the formatter's depth is the number of
\* containers opened and not yet closed (so each begin_* adds one and each
\* end_* takes one away), it is never below 0, and once the root value has
\* been rendered whole the depth is 0 again.
C21_DepthBalance ==
    /\ ser.depth = Len(stack)
    /\ ser.depth >= 0
    /\ (started /\ stack = <<>>) => (ser.res = "ok" /\ ser.depth = 0)

\* the render of a container that held a map with an entry is over
C21_Witness ==
    /\ started /\ stack = <<>>
    /\ last_close.kind # "map" /\ last_close.n = 1 /\ last_close.depth = 0
    /\ "}" \in Range(ser.writer) /\ ":" \in Range(ser.writer)
    /\ ser.depth = 0

SignedText(v) == IF v < 0 THEN <<"-">> \o to_lexical(-v) ELSE <<"+">> \o to_lexical(v)

\* C7: every signed integer of every width, the minimum of the width included,
\* transcodes to a Value whose rendering is its sign and then the digits of its
\* magnitude, and no absolute value on the way overflows.
C7_SignMagnitude ==
    (source.t \in SignedTypes /\ value # Pending) =>
        /\ value.res = "ok"
        /\ \A i \in 1..Len(renders) :
               renders[i].res = "ok" /\ renders[i].writer = SignedText(source.v)

InI128Range(v) ==
    IF v.sign = "Positive" THEN v.int.raw <= IntMax(I128_BITS)
    ELSE v.int.raw <= IntMax(I128_BITS) + 1

\* C11: a Value::Signed(sign, m) in the i128 range renders as '+' for Positive
\* and '-' for Negative and then the digits of m, for m = 0 too; a
\* Value::Unsigned(m) renders as the digits of m and no sign.
C11_SignThenMagnitude ==
    value.res = "ok" =>
        \A i \in 1..Len(renders) :
            /\ (value.val.tag = "Signed" /\ InI128Range(value.val)) =>
                   /\ renders[i].res = "ok"
                   /\ renders[i].writer =
                          (IF value.val.sign = "Positive" THEN <<"+">> ELSE <<"-">>)
                          \o to_lexical(value.val.int.raw)
            /\ value.val.tag = "Unsigned" =>
                   /\ renders[i].res = "ok"
                   /\ renders[i].writer = to_lexical(value.val.int.raw)

RECURSIVE StructNames(_)
\* the names of the Structs and of their fields anywhere in a Value
StructNames(v) ==
    CASE v.tag = "Struct" ->
            (IF v.name.some THEN {v.name.v} ELSE {})
            \cup (IF ~v.fields.some THEN {}
                  ELSE IF v.fields.f.kind = "Named"
                  THEN UNION {{v.fields.f.named[i][1]} \cup StructNames(v.fields.f.named[i][2]) :
                              i \in DOMAIN v.fields.f.named}
                  ELSE UNION {StructNames(v.fields.f.unnamed[i]) :
                              i \in DOMAIN v.fields.f.unnamed})
      [] v.tag = "Map" ->
            UNION {StructNames(v.raw[i][1]) \cup StructNames(v.raw[i][2]) : i \in DOMAIN v.raw}
      [] v.tag = "Array" -> UNION {StructNames(v.items[i]) : i \in DOMAIN v.items}
      [] OTHER -> {}

\* C17: a newtype struct around x is rendered to the very bytes (and outcome) of
\* rendering x and transcoded to the very Value (or error) of transcoding x, and
\* the wrapper's name is neither in the text nor a name in the Value.
C17_NewtypeTransparent ==
    source.t = "newtype_struct" =>
        /\ text # Pending =>
                /\ text = to_writer(source.x)
                /\ "N" \notin Range(text.writer)
        /\ value # Pending =>
                /\ value = to_value(source.x)
                /\ value.res = "ok" => source.name \notin StructNames(value.val)

\* struct N(Point) has been rendered and transcoded
C17_Witness ==
    /\ source.t = "newtype_struct"
    /\ source.x.t = "struct"
    /\ text # Pending /\ text.res = "ok"
    /\ value # Pending /\ value.res = "ok"
    /\ value.val.tag = "Struct" /\ value.val.name = Name(POINT)

\* C10: a Value::Bytes renders as the one token b"..." holding the base64 of
\* its bytes.
C10_BytesRenderAsLiteral ==
    (value.res = "ok" /\ value.val.tag = "Bytes") =>
        \A i \in 1..Len(renders) :
            /\ renders[i].res = "ok"
            /\ renders[i].writer = <<"b", QUOTE>> \o base64_encode(value.val.bs) \o <<QUOTE>>

\* the Values that the elements xs transcode to, in call order
TranscodedElements(xs) == [i \in 1..Len(xs) |-> to_value(xs[i]).val]

\* the (name, Value) entries that the fields kvs transcode to, in call order
TranscodedEntries(kvs) == [i \in 1..Len(kvs) |-> <<kvs[i][1], to_value(kvs[i][2]).val>>]

AllTranscode(xs) == \A i \in 1..Len(xs) : to_value(xs[i]).res = "ok"

\* the entries of kvs without those whose key comes again later ...
LastOfEachKey(kvs) == {i \in 1..Len(kvs) : \A j \in (i + 1)..Len(kvs) : kvs[j][1] # kvs[i][1]}

\* ... and the keys of kvs at their first occurrence
FirstOfEachKey(kvs) == {i \in 1..Len(kvs) : \A j \in 1..(i - 1) : kvs[j][1] # kvs[i][1]}

\* raw holds one entry for each distinct key of kvs, in the order of the keys'
\* first occurrences, each with the value that came last for it
IsLastWins(raw, kvs) ==
    /\ Len(raw) = Cardinality(FirstOfEachKey(kvs))
    /\ \A i \in FirstOfEachKey(kvs) :
          LET at == Cardinality({j \in FirstOfEachKey(kvs) : j <= i})
          IN  /\ raw[at][1] = kvs[i][1]
              /\ \E l \in LastOfEachKey(kvs) : kvs[l] = <<raw[at][1], raw[at][2]>>

SequenceLike == {"seq", "tuple", "tuple_struct", "tuple_variant"}
StructLike == {"struct", "struct_variant"}

\* what C24 states of the sequence-like sources and of unit
ShapeOfElements ==
    /\ (source.t \in SequenceLike /\ AllTranscode(source.xs)) =>
          value = Ok(CASE source.t = "seq" -> Value_Array(TranscodedElements(source.xs))
                       [] source.t = "tuple" ->
                             Value_Struct(NoName, SomeFields(Fields_Unnamed(
                                 TranscodedElements(source.xs))))
                       [] OTHER ->
                             Value_Struct(Name(source.name), SomeFields(Fields_Unnamed(
                                 TranscodedElements(source.xs)))))
    /\ (source.t \in {"tuple", "tuple_struct", "tuple_variant"} /\ source.xs = <<>>) =>
          /\ value.val.fields = SomeFields(Fields_Unnamed(<<>>))
          /\ value.val.fields # NoFields
    /\ source.t = "unit" => value = Ok(Value_Struct(NoName, NoFields))

\* C24 (as stated): a sequence yields the Array of its transcoded elements, a
\* tuple, tuple struct or tuple variant the Struct of that name with them as
\* Unnamed fields (an empty list for none, which is not unit's absent fields),
\* a struct or struct variant the Struct of that name whose Named fields are
\* the entries in call order, and unit the Struct with neither.
C24_ShapesInCallOrder ==
    (source # NoSource /\ value # Pending) =>
        /\ ShapeOfElements
        /\ (source.t \in StructLike /\ AllTranscode([i \in 1..Len(source.kvs) |-> source.kvs[i][2]])) =>
              value = Ok(Value_Struct(Name(source.name), SomeFields(Fields_Named(
                             TranscodedEntries(source.kvs)))))

\* C24 (amended): as stated, but the Named fields are a map: a field name
\* serialized again keeps the place of its first entry and takes the last value.
C24_Shapes ==
    (source # NoSource /\ value # Pending) =>
        /\ ShapeOfElements
        /\ (source.t \in StructLike /\ AllTranscode([i \in 1..Len(source.kvs) |-> source.kvs[i][2]])) =>
              /\ value.res = "ok"
              /\ value.val.tag = "Struct"
              /\ value.val.name = Name(source.name)
              /\ value.val.fields.some
              /\ value.val.fields.f.kind = "Named"
              /\ IsLastWins(value.val.fields.f.named, TranscodedEntries(source.kvs))

\* a struct that serializes the field x twice, with two values
C24_Witness ==
    /\ source # NoSource
    /\ source.t = "struct"
    /\ Len(source.kvs) = 2
    /\ source.kvs[1][1] = source.kvs[2][1]
    /\ source.kvs[1][2] # source.kvs[2][2]
    /\ value.res = "ok"
    /\ Len(value.val.fields.f.named) = 1

\* an empty tuple struct and a sequence of two elements
C24_WitnessTuple ==
    /\ source # NoSource
    /\ source.t = "tuple_struct"
    /\ source.xs = <<>>
    /\ value.res = "ok"

RECURSIVE Marked(_)
\* the Value v with a String mark in the place of every Signed outside the i128 range
Marked(v) ==
    CASE v.tag = "Signed" -> IF InI128Range(v) THEN v ELSE Value_String(<<"!">>)
      [] v.tag = "Array" -> Value_Array([i \in 1..Len(v.items) |-> Marked(v.items[i])])
      [] v.tag = "Map" ->
            Value_Map([i \in 1..Len(v.raw) |-> <<Marked(v.raw[i][1]), Marked(v.raw[i][2])>>])
      [] v.tag = "Struct" /\ v.fields.some /\ v.fields.f.kind = "Unnamed" ->
            Value_Struct(v.name, SomeFields(Fields_Unnamed(
                [i \in 1..Len(v.fields.f.unnamed) |-> Marked(v.fields.f.unnamed[i])])))
      [] v.tag = "Struct" /\ v.fields.some /\ v.fields.f.kind = "Named" ->
            Value_Struct(v.name, SomeFields(Fields_Named(
                [i \in 1..Len(v.fields.f.named) |->
                    <<v.fields.f.named[i][1], Marked(v.fields.f.named[i][2])>>])))
      [] OTHER -> v

\* the text before the first mark of a marked render
BeforeMark(cs) ==
    LET at == {i \in 1..Len(cs) : cs[i] = "!"}
    IN  IF at = {} THEN cs ELSE SubSeq(cs, 1, (CHOOSE i \in at : \A j \in at : i <= j) - 2)

HasOutsideI128(v) == Marked(v) # v

\* C27: rendering a Value into a Vec returns an error exactly when the tree
\* holds a Signed outside the i128 range; the error is a Message, raised at the
\* first such node with everything before it written; without such a node the
\* render succeeds, whatever Unsigned magnitudes of up to 128 bits it holds.
C27_ErrorIffOutsideI128 ==
    (value.res = "ok" /\ source = NoSource) =>
        \A i \in 1..Len(renders) :
            /\ HasOutsideI128(value.val) =>
                  /\ renders[i].res = "msg"
                  /\ renders[i].msg = MSG_SIGNED
                  /\ renders[i].writer =
                        BeforeMark(to_writer(Value_serialize(Marked(value.val))).writer)
            /\ ~HasOutsideI128(value.val) => renders[i].res = "ok"

\* the same with the render of the Value of i128::MIN left out
C27_ApartFromI128Min ==
    (value.res = "ok" /\ value.val # Value_Signed("Negative", Integer_from(IntMax(I128_BITS) + 1)))
        => C27_ErrorIffOutsideI128

\* C29: a source rendered by to_string and the Value that to_value transcodes
\* it to, rendered by to_string, give the same text: maps that repeat a key and
\* byte strings included.
C29_DirectAndViaValueAgree ==
    (source # NoSource /\ text # Pending /\ value.res = "ok") =>
        \A i \in 1..Len(renders) :
            /\ renders[i].res = text.res
            /\ renders[i].writer = text.writer

RECURSIVE IsPlain(_)
\* a source without byte strings and without a map or a struct that serializes
\* a key twice
IsPlain(x) ==
    CASE x.t = "bytes" -> FALSE
      [] x.t \in {"some", "newtype_struct", "newtype_variant"} -> IsPlain(x.x)
      [] x.t \in SequenceLike -> \A i \in 1..Len(x.xs) : IsPlain(x.xs[i])
      [] x.t \in StructLike ->
            /\ FirstOfEachKey(x.kvs) = 1..Len(x.kvs)
            /\ \A i \in 1..Len(x.kvs) : IsPlain(x.kvs[i][2])
      [] x.t = "map" ->
            /\ FirstOfEachKey(x.kvs) = 1..Len(x.kvs)
            /\ \A i \in 1..Len(x.kvs) : IsPlain(x.kvs[i][1]) /\ IsPlain(x.kvs[i][2])
      [] OTHER -> TRUE

\* the two renders of every other source agree
C29_PlainSourcesAgree ==
    (source # NoSource /\ IsPlain(source)) => C29_DirectAndViaValueAgree

-----------------------------------------------------------------------------
(* SpecMap: two map sources are transcoded by to_value and the two Values are *)
(* compared with == and hashed.                                               *)

MapEntries == {SrcStr(STR_A), SrcStr(STR_B)} \X {SrcInt("u32", 1), SrcInt("u32", 2)}

MapSources ==
    {SrcMap(kvs) : kvs \in SeqsUpTo(MapEntries, MaxElems)}
    \cup {SrcMap(<< <<SrcStr(STR_A), m>> >>) : m \in {MapABSource, MapBASource}}
    \cup {SrcMap(<< <<m, SrcInt("u32", 1)>> >>) : m \in {MapABSource, MapBASource}}

InitMap ==
    /\ \E l \in MapSources, r \in MapSources :
          /\ left = [src |-> l, val |-> Pending]
          /\ right = [src |-> r, val |-> Pending]
    /\ cmp = Pending
    /\ overflow_checks \in BOOLEAN
    /\ StepIdle /\ CodecIdle /\ ErrorIdle /\ AuxIdle

\* to_value(&left source)
TranscodeLeft ==
    /\ left.val = Pending
    /\ left' = [left EXCEPT !.val = to_value(left.src)]
    /\ UNCHANGED <<right, cmp, overflow_checks, AuxVars, StepVars, CodecVars, ErrorVars>>

\* to_value(&right source)
TranscodeRight ==
    /\ right.val = Pending
    /\ right' = [right EXCEPT !.val = to_value(right.src)]
    /\ UNCHANGED <<left, cmp, overflow_checks, AuxVars, StepVars, CodecVars, ErrorVars>>

\* left == right, and each map's Hash::hash into a hasher of its own
Compare ==
    /\ left.val.res = "ok"
    /\ right.val.res = "ok"
    /\ cmp = Pending
    /\ cmp' = [res |-> "done",
               eq |-> Value_eq(left.val.val, right.val.val),
               hash_left |-> Map_hash(left.val.val.raw, <<>>),
               hash_right |-> Map_hash(right.val.val.raw, <<>>)]
    /\ UNCHANGED <<left, right, overflow_checks, AuxVars, StepVars, CodecVars, ErrorVars>>

NextMap == TranscodeLeft \/ TranscodeRight \/ Compare

SpecMap == InitMap /\ [][NextMap]_vars

\* C9: two Maps are equal exactly when they hold the same entries in the same
\* order; the maps transcoded from a, b and from b, a are not equal; equal maps
\* hand the same sequence of entries to the hasher.
C9_MapEqIsOrderSensitive ==
    cmp # Pending =>
        /\ cmp.eq = (left.val.val.raw = right.val.val.raw)
        /\ (left.src = MapABSource /\ right.src = MapBASource) => ~cmp.eq
        /\ cmp.eq => cmp.hash_left = cmp.hash_right

C9_Witness ==
    /\ left.src = MapABSource
    /\ right.src = MapBASource
    /\ cmp # Pending
    /\ ~cmp.eq
    /\ Len(left.val.val.raw) = 2

-----------------------------------------------------------------------------
(* SpecInteger: the narrowing accessors of Integer and Value, each called on  *)
(* a Value built from a sign and a magnitude.                                 *)

NarrowMagnitudes ==
    (0..(UintMax(I64_BITS) + 2))
    \cup ((IntMax(I128_BITS) - 1)..(IntMax(I128_BITS) + 2))
    \cup {UintMax(I128_BITS)}

NarrowInputs ==
    {Value_Signed(s, Integer_from(m)) : s \in {"Positive", "Negative"}, m \in NarrowMagnitudes}
    \cup {Value_Unsigned(Integer_from(m)) : m \in NarrowMagnitudes}
    \cup {Value_Bool(TRUE), Value_String(STR_A), Value_Array(<<>>)}

IsInteger(v) == v.tag \in {"Signed", "Unsigned"}

InitInteger ==
    /\ int_in \in NarrowInputs
    /\ int_out = Pending
    /\ overflow_checks \in BOOLEAN
    /\ StepIdle /\ CodecIdle /\ MapIdle /\ ErrorIdle /\ FloatIdle /\ DeIdle /\ SinkIdle /\ MsIdle

Returned(acc, r) ==
    /\ int_out = Pending
    /\ int_out' = [res |-> "done", acc |-> acc, r |-> r]
    /\ UNCHANGED <<int_in, overflow_checks, FloatVars, DeVars, SinkVars, MsVars,
                   StepVars, CodecVars, MapVars, ErrorVars>>

\* Integer::as_int::<uN>() on the Integer of the Value
AsInt == \E t \in UnsignedTypes :
    IsInteger(int_in) /\ Returned(t, Integer_as_int(int_in.int, UnsignedBits(t)))

AsU64 == Returned("as_u64", Value_as_u64(int_in))
AsI64 == Returned("as_i64", Value_as_i64(int_in))
AsU128 == Returned("as_u128", Value_as_u128(int_in))
AsI128 == Returned("as_i128", Value_as_i128(int_in))

NextInteger == AsInt \/ AsU64 \/ AsI64 \/ AsU128 \/ AsI128

SpecInteger == InitInteger /\ [][NextInteger]_vars

\* the integer a Value stands for: the sign applied to the magnitude
Represented(v) ==
    IF v.tag = "Signed" /\ v.sign = "Negative" THEN -v.int.raw ELSE v.int.raw

AccessorBits(acc) == IF acc \in {"as_u64", "as_i64"} THEN I64_BITS ELSE I128_BITS

FitOrNone(x, lo, hi) == IF lo <= x /\ x <= hi THEN SomeInt(x) ELSE NoInt

\* Integer::as_int and the signed accessors give the number when it fits, no value
\* when it does not, and no value for a Value that is not an integer
NarrowsExactly ==
    /\ int_out.acc \in UnsignedTypes =>
           int_out.r = FitOrNone(int_in.int.raw, 0, UintMax(UnsignedBits(int_out.acc)))
    /\ (int_out.acc \in {"as_i64", "as_i128"} /\ IsInteger(int_in)) =>
           int_out.r = FitOrNone(Represented(int_in), IntMin(AccessorBits(int_out.acc)),
                                 IntMax(AccessorBits(int_out.acc)))
    /\ ~IsInteger(int_in) => int_out.r = NoInt

\* C12 (as stated): no narrowing truncates: Integer::as_int::<T> gives the
\* magnitude when it fits T and no value otherwise; as_i64, as_i128, as_u64 and
\* as_u128 give the integer the Value stands for whenever it fits the target,
\* its most negative value included, and no value whenever it does not.
C12_NarrowWheneverFits ==
    int_out # Pending =>
        /\ NarrowsExactly
        /\ (int_out.acc \in {"as_u64", "as_u128"} /\ IsInteger(int_in)) =>
               int_out.r = FitOrNone(Represented(int_in), 0,
                                     UintMax(AccessorBits(int_out.acc)))

\* C12 (amended): the same, but as_u64 and as_u128 give a value only for an
\* Unsigned or Positive Value whose magnitude fits, and no value for every
\* Negative Value, the one of magnitude 0 included.
C12_NarrowNeverTruncates ==
    int_out # Pending =>
        /\ NarrowsExactly
        /\ (int_out.acc \in {"as_u64", "as_u128"} /\ IsInteger(int_in)) =>
               int_out.r =
                   IF int_in.tag = "Signed" /\ int_in.sign = "Negative" THEN NoInt
                   ELSE FitOrNone(int_in.int.raw, 0, UintMax(AccessorBits(int_out.acc)))

C12_Witness ==
    /\ int_in = Value_Signed("Negative", Integer_from(IntMax(I64_BITS) + 1))
    /\ int_out # Pending
    /\ int_out.acc = "as_i64"
    /\ int_out.r = SomeInt(IntMin(I64_BITS))

-----------------------------------------------------------------------------
(* SpecDe: Value::deserialize on what a Deserializer reports.                 *)

DeLeaves ==
    {DeU64(1), DeU64(2), DeU128(UintMax(I128_BITS)), DeI64(-1), DeI64(IntMin(I64_BITS)),
     DeI128(5), DeBool(TRUE), DeStr(STR_A), DeChar("c"), DeBytes(<<1>>), DeUnit,
     DeNone, DeEnum}

DeKeys == {DeStr(STR_A), DeU64(1), DeEnum}

DeInner ==
    {DeU64(1), DeEnum, DeSeq(<<>>), DeSeq(<<DeU64(2), DeU64(1)>>),
     DeSeq(<<DeU64(1), DeEnum>>), DeSome(DeU64(1)), DeNewtypeStruct(DeEnum),
     DeMap(<< <<DeStr(STR_A), DeU64(1)>> >>)}

DeStreams ==
    DeLeaves
    \cup {DeSeq(xs) : xs \in SeqsUpTo(DeLeaves, MaxElems)}
    \cup {DeSeq(xs) : xs \in SeqsUpTo(DeInner, MaxElems)}
    \cup {DeMap(kvs) : kvs \in SeqsUpTo(DeKeys \X DeInner, MaxElems)}
    \cup {DeSome(x) : x \in DeInner} \cup {DeNewtypeStruct(x) : x \in DeInner}

InitDe ==
    /\ de_in \in DeStreams
    /\ de_out = Pending
    /\ overflow_checks \in BOOLEAN
    /\ StepIdle /\ CodecIdle /\ MapIdle /\ ErrorIdle /\ IntIdle /\ FloatIdle /\ SinkIdle /\ MsIdle

\* Value::deserialize(deserializer)
Deserialize ==
    /\ de_out = Pending
    /\ de_out' = Value_deserialize(de_in)
    /\ UNCHANGED <<de_in, overflow_checks, IntVars, FloatVars, SinkVars, MsVars,
                   StepVars, CodecVars, MapVars, ErrorVars>>

NextDe == Deserialize

SpecDe == InitDe /\ [][NextDe]_vars

\* the Deserializer reports a sequence whose elements are all u64
IsU64Seq(d) == d.t = "seq" /\ \A i \in 1..Len(d.xs) : d.xs[i].t = "u64"

\* C13: Value::deserialize on a Deserializer that reports an enum gives an
\* Error with position (0, 0) and a Message code, and no Value; on one that
\* reports the sequence of the u64s 1 and 2 it gives
\* Array([Unsigned(1), Unsigned(2)]), the elements in the order they were read.
C13_EnumFailsSeqBuildsArray ==
    de_out # Pending =>
        /\ de_in = DeEnum =>
               de_out = DeErr(Error_Message(Position_default, MSG_ENUM))
        /\ IsU64Seq(de_in) =>
               de_out = Ok(Value_Array([i \in 1..Len(de_in.xs) |->
                                           Value_Unsigned(Integer_from(de_in.xs[i].v))]))

C13_Witness ==
    /\ de_in = DeSeq(<<DeU64(1), DeU64(2)>>)
    /\ de_out = Ok(Value_Array(<<Value_Unsigned(Integer_from(1)),
                                 Value_Unsigned(Integer_from(2))>>))

-----------------------------------------------------------------------------
(* SpecPaths: the two ways to a Value.  One datum is transcoded by to_value   *)
(* from the calls of its Serialize impl, another is built by                 *)
(* Value::deserialize from the visits of a Deserializer; the data are maps   *)
(* that may repeat a key, and optionals.                                      *)

PathLeaves == {SrcInt("u64", 1), SrcInt("u64", 2), SrcStr(STR_A), SrcNone}

PathMaps ==
    {SrcMap(kvs) : kvs \in SeqsUpTo(MapEntries, MaxElems)}
    \cup {SrcMap(<< <<SrcStr(STR_A), SrcInt("u32", 1)>>, <<SrcStr(STR_B), SrcInt("u32", 2)>>,
                    <<SrcStr(STR_A), SrcInt("u32", 2)>> >>)}

PathSources ==
    PathMaps \cup PathLeaves
    \cup {SrcSome(x) : x \in PathLeaves \cup {SrcSome(SrcNone), MapABSource, SrcError(<<"e">>)}}

\* the Deserializer that reports the datum a source serializes
RECURSIVE DeOf(_)
DeOf(x) ==
    CASE IsUnsignedT(x.t) -> DeU64(x.v)
      [] x.t = "str" -> DeStr(x.s)
      [] x.t = "none" -> DeNone
      [] x.t = "some" -> DeSome(DeOf(x.x))
      [] x.t = "map" -> DeMap([i \in 1..Len(x.kvs) |-> <<DeOf(x.kvs[i][1]), DeOf(x.kvs[i][2])>>])
      [] x.t = "error" -> DeEnum

PathStreams == {DeOf(x) : x \in PathSources}

InitPaths ==
    /\ source \in PathSources
    /\ value = Pending
    /\ text = Pending
    /\ renders = <<>>
    /\ formatter = [config |-> Config_default, depth |-> 0, not_first |-> FALSE]
    /\ copy = Pending
    /\ de_in \in PathStreams
    /\ de_out = Pending
    /\ overflow_checks \in BOOLEAN
    /\ StepIdle /\ MapIdle /\ ErrorIdle /\ IntIdle /\ FloatIdle /\ SinkIdle /\ MsIdle

NextPaths == SourceToValue \/ Deserialize

SpecPaths == InitPaths /\ [][NextPaths]_vars

\* the (key, value) pairs the entries kvs transcode to, in call order
TranscodedPairs(kvs) ==
    [i \in 1..Len(kvs) |-> <<to_value(kvs[i][1]).val, to_value(kvs[i][2]).val>>]

\* the (key, value) pairs the entries kvs are visited as, in the order read
VisitedPairs(kvs) ==
    [i \in 1..Len(kvs) |-> <<Value_deserialize(kvs[i][1]).val, Value_deserialize(kvs[i][2]).val>>]

\* raw holds each key of kvs once, with the value kvs supplies last for it
OneEntryPerKey(raw, kvs) ==
    /\ Len(raw) = Cardinality({kvs[i][1] : i \in 1..Len(kvs)})
    /\ {raw[i][1] : i \in 1..Len(raw)} = {kvs[i][1] : i \in 1..Len(kvs)}
    /\ \A i \in 1..Len(raw) : \E l \in LastOfEachKey(kvs) : kvs[l] = <<raw[i][1], raw[i][2]>>

\* C25: a map source that supplies a key more than once, to the transcoder or
\* to Value::deserialize, yields a Value::Map with one entry for each distinct
\* key, holding the value supplied last for it.
C25_DuplicateKeysLastWins ==
    /\ (source.t = "map" /\ value # Pending) =>
          /\ value.res = "ok"
          /\ value.val.tag = "Map"
          /\ OneEntryPerKey(value.val.raw, TranscodedPairs(source.kvs))
    /\ (de_in.t = "map" /\ de_out # Pending) =>
          /\ de_out.res = "ok"
          /\ de_out.val.tag = "Map"
          /\ OneEntryPerKey(de_out.val.raw, VisitedPairs(de_in.kvs))

\* a, b, a again with another value, on both paths
C25_Witness ==
    /\ source.t = "map"
    /\ Len(source.kvs) = 3
    /\ de_in = DeOf(source)
    /\ value.res = "ok"
    /\ de_out.res = "ok"
    /\ Len(value.val.raw) = 2
    /\ Len(de_out.val.raw) = 2

SomeOf(x) == Value_Struct(Name(<<"S", "o", "m", "e">>), SomeFields(Fields_Unnamed(<<x>>)))
NoneValue == Value_Struct(Name(<<"N", "o", "n", "e">>), NoFields)

\* C26: an absent optional is the Struct named None without fields on both
\* paths, a present one the Struct named Some whose Unnamed fields are the one
\* Value built from what it wraps; the same datum gives the same Value on both.
C26_OptionalsAgree ==
    /\ (source.t = "none" /\ value # Pending) => value = Ok(NoneValue)
    /\ (de_in.t = "none" /\ de_out # Pending) => de_out = Ok(NoneValue)
    /\ (source.t = "some" /\ value # Pending) =>
          value = IF to_value(source.x).res = "ok" THEN Ok(SomeOf(to_value(source.x).val))
                  ELSE to_value(source.x)
    /\ (de_in.t = "some" /\ de_out # Pending) =>
          de_out = IF Value_deserialize(de_in.x).res = "ok"
                   THEN Ok(SomeOf(Value_deserialize(de_in.x).val))
                   ELSE Value_deserialize(de_in.x)
    /\ (source.t \in {"none", "some"} /\ de_in = DeOf(source)
        /\ value # Pending /\ value.res = "ok" /\ de_out # Pending) => de_out = value

\* Some(Some(None)) on both paths
C26_Witness ==
    /\ source = SrcSome(SrcSome(SrcNone))
    /\ de_in = DeOf(source)
    /\ value = Ok(SomeOf(SomeOf(NoneValue)))
    /\ de_out = value

-----------------------------------------------------------------------------
(* SpecValue: to_value(&value) on a Value, one built with the public          *)
(* constructors or one that to_value gave for a source.                       *)

TranscodedValues ==
    {to_value(x).val : x \in {y \in {PointSource, MapABSource, Some5Source, SrcUnit, SrcNone,
                                      SrcStr(STR_A), SrcBool(TRUE), SrcChar("c"),
                                      SrcSeq(<<SrcInt("i32", -1), SrcInt("u8", 1)>>),
                                      SrcTuple(<<SrcStr(STR_A)>>), SrcTuple(<<>>),
                                      SrcUnitStruct(<<"U">>)} \cup Wrapped :
                                to_value(y).res = "ok"}}

InitValue ==
    /\ overflow_checks \in BOOLEAN
    /\ source = NoSource
    /\ \E v \in BuiltValues \cup TranscodedValues : value = Ok(v)
    /\ text = Pending
    /\ renders = <<>>
    /\ formatter = [config |-> Config_default, depth |-> 0, not_first |-> FALSE]
    /\ copy = Pending
    /\ StepIdle /\ MapIdle /\ ErrorIdle /\ AuxIdle

\* to_value(&value)
ValueToValue ==
    /\ value.res = "ok"
    /\ copy = Pending
    /\ copy' = to_value(Value_serialize(value.val))
    /\ UNCHANGED <<source, value, text, renders, formatter, overflow_checks, AuxVars,
                   StepVars, MapVars, ErrorVars>>

NextValue == ValueToValue

SpecValue == InitValue /\ [][NextValue]_vars

\* C30: to_value of a Value whose signed integers are in the i128 range
\* succeeds and gives the Value back: a Value::Bytes, a Signed(Negative, 0), a
\* Struct without a name and with Named fields, a Struct with a name and an
\* empty Unnamed list.
C30_TranscodingIsIdentity ==
    (copy # Pending /\ ~HasOutsideI128(value.val)) => copy = value

RECURSIVE IsKept(_)
\* a Value without Bytes, without a Signed of magnitude 0 and Negative sign or
\* of i128::MIN, and without a Struct of Named fields and no name
IsKept(v) ==
    CASE v.tag = "Bytes" -> FALSE
      [] v.tag = "Signed" ->
            /\ InI128Range(v)
            /\ v.sign = "Negative" => v.int.raw \notin {0, IntMax(I64_BITS) + 1, IntMax(I128_BITS) + 1}
      [] v.tag = "Array" -> \A i \in 1..Len(v.items) : IsKept(v.items[i])
      [] v.tag = "Map" -> \A i \in 1..Len(v.raw) : IsKept(v.raw[i][1]) /\ IsKept(v.raw[i][2])
      [] v.tag = "Struct" /\ v.fields.some /\ v.fields.f.kind = "Unnamed" ->
            \A i \in 1..Len(v.fields.f.unnamed) : IsKept(v.fields.f.unnamed[i])
      [] v.tag = "Struct" /\ v.fields.some /\ v.fields.f.kind = "Named" ->
            /\ v.name.some
            /\ \A i \in 1..Len(v.fields.f.named) : IsKept(v.fields.f.named[i][2])
      [] OTHER -> TRUE

\* every other Value is given back
C30_KeptValues ==
    (copy # Pending /\ IsKept(value.val)) => copy = value

-----------------------------------------------------------------------------
(* SpecFloat: three Floats, each pair of them compared with ==, with cmp, and *)
(* each hashed into a hasher of its own.                                      *)

Three == 1..3

InitFloat ==
    /\ flt \in [Three -> {Float_from(f) : f \in F64}]
    /\ flt_out = Pending
    /\ overflow_checks \in BOOLEAN
    /\ StepIdle /\ CodecIdle /\ MapIdle /\ ErrorIdle /\ IntIdle /\ DeIdle /\ SinkIdle /\ MsIdle

FloatReturned(op, r) ==
    /\ flt_out = Pending
    /\ flt_out' = [res |-> "done", op |-> op, r |-> r]
    /\ UNCHANGED <<flt, overflow_checks, IntVars, DeVars, SinkVars, MsVars,
                   StepVars, CodecVars, MapVars, ErrorVars>>

\* a == b for every pair
FloatEq == FloatReturned("eq", [i \in Three |-> [j \in Three |-> Float_eq(flt[i], flt[j])]])

\* a.partial_cmp(&b) for every pair
FloatCmp ==
    FloatReturned("cmp", [i \in Three |-> [j \in Three |-> Float_partial_cmp(flt[i], flt[j]).v]])

\* a.hash(&mut hasher) for each
FloatHash == FloatReturned("hash", [i \in Three |-> Float_hash(flt[i], <<>>)])

NextFloat == FloatEq \/ FloatCmp \/ FloatHash

SpecFloat == InitFloat /\ [][NextFloat]_vars

NotNaN(i) == ~is_nan(flt[i].raw)
Number(i) == f64_number(flt[i].raw)
SameBits(i, j) == flt[i].raw = flt[j].raw
AtMost(c) == c \in {"Less", "Equal"}

\* C14: for Floats that are not NaN the order of cmp is the order of the
\* numbers: a smaller number compares Less, and no Float compares Less
\* than one whose number is smaller (-0.0 and +0.0 are the same number).
C14_OrderIsNumeric ==
    (flt_out # Pending /\ flt_out.op = "cmp") =>
        \A i, j \in Three : (NotNaN(i) /\ NotNaN(j)) =>
            /\ Number(i) < Number(j) => flt_out.r[i][j] = "Less"
            /\ flt_out.r[i][j] = "Less" => Number(i) <= Number(j)

\* C15: two Floats are equal exactly when their bit patterns are the same, a
\* NaN equals itself and differs from another NaN; Floats with the same bits
\* feed the hasher the same; cmp is a total order on the bit patterns
\* (antisymmetric, transitive, total) and is Equal exactly for equal Floats.
C15_FloatIdentity ==
    flt_out # Pending =>
        /\ flt_out.op = "eq" =>
               \A i, j \in Three : flt_out.r[i][j] = SameBits(i, j)
        /\ flt_out.op = "hash" =>
               \A i, j \in Three : SameBits(i, j) => flt_out.r[i] = flt_out.r[j]
        /\ flt_out.op = "cmp" =>
               /\ \A i, j \in Three : (flt_out.r[i][j] = "Equal") = SameBits(i, j)
               /\ \A i, j \in Three : (flt_out.r[i][j] = "Less") = (flt_out.r[j][i] = "Greater")
               /\ \A i, j, k \in Three :
                      (AtMost(flt_out.r[i][j]) /\ AtMost(flt_out.r[j][k]))
                          => AtMost(flt_out.r[i][k])

C15_Witness ==
    /\ flt_out # Pending
    /\ flt_out.op = "eq"
    /\ is_nan(flt[1].raw) /\ is_nan(flt[2].raw) /\ is_nan(flt[3].raw)
    /\ flt[1] = flt[3] /\ flt[1] # flt[2]
    /\ flt_out.r[1][3] /\ ~flt_out.r[1][2]

-----------------------------------------------------------------------------
(* SpecSink: to_writer renders one source into a sink that takes a bounded    *)
(* number of bytes and fails every write after that.                          *)

SinkSources ==
    ScalarSources \cup Containers(Leaves) \cup Wrapped
    \cup {PointSource, MapABSource, Some5Source, SrcInt("i32", -2), SrcInt("u8", 2),
          SrcBytes(<<1>>), SrcSeq(<<SrcSeq(<<SrcInt("i32", 1)>>), SrcInt("i32", 1)>>)}

InitSink ==
    /\ \E x \in SinkSources, room \in 0..MaxRoom, partial \in BOOLEAN :
            sink_in = [src |-> x, w |-> Sink(room, partial)]
    /\ sink_out = Pending
    /\ overflow_checks \in BOOLEAN
    /\ StepIdle /\ CodecIdle /\ MapIdle /\ ErrorIdle /\ IntIdle /\ FloatIdle /\ DeIdle /\ MsIdle

\* to_writer(w, &source)
ToWriter ==
    /\ sink_out = Pending
    /\ sink_out' = to_writer_into(sink_in.w, sink_in.src)
    /\ UNCHANGED <<sink_in, overflow_checks, IntVars, FloatVars, DeVars, MsVars,
                   StepVars, CodecVars, MapVars, ErrorVars>>

NextSink == ToWriter

SpecSink == InitSink /\ [][NextSink]_vars

IsPrefix(p, t) == Len(p) <= Len(t) /\ SubSeq(t, 1, Len(p)) = p

\* C16: when a write on the sink fails during a render, that write is the last
\* call made on the sink, the render returns the I/O error, and the sink holds
\* the first bytes of the text the render writes into a sink that never fails:
\* nothing is taken back and nothing is written after the failure.
C16_FailFast ==
    sink_out # Pending =>
        LET w == sink_out.sink
            whole == to_writer(sink_in.src)
        IN  /\ IsPrefix(sink_out.writer, whole.writer)
            /\ w.failed # 0 <=> sink_out.res = "io"
            /\ w.failed # 0 =>
                    /\ w.calls = w.failed
                    /\ Len(sink_out.writer) <= w.room
                    /\ Len(whole.writer) > w.room
                    /\ w.partial => Len(sink_out.writer) = w.room
            /\ w.failed = 0 => sink_out = [whole EXCEPT !.sink = w]

\* the third write of a render of a sequence fails with bytes in the sink
C16_Witness ==
    /\ sink_out # Pending
    /\ sink_in.src.t = "seq"
    /\ sink_out.res = "io"
    /\ sink_out.sink.failed > 2
    /\ sink_out.writer # <<>>

-----------------------------------------------------------------------------
(* SpecMapSer: a source drives the MapSerializer of serialize_map with any    *)
(* sequence of serialize_key, serialize_value, serialize_entry and end, in    *)
(* or out of the order the SerializeMap protocol asks for.                    *)

MsKeys == {SrcStr(STR_A), SrcStr(STR_B), SrcError(<<"e">>)}
MsValues == {SrcInt("u32", 1), SrcInt("u32", 2), SrcError(<<"e">>)}

InitMapSer ==
    /\ ms_buf = <<>>
    /\ ms_prev = <<>>
    /\ ms_last = [op |-> "none"]
    /\ ms_n = 0
    /\ overflow_checks \in BOOLEAN
    /\ StepIdle /\ CodecIdle /\ MapIdle /\ ErrorIdle
    /\ IntIdle /\ FloatIdle /\ DeIdle /\ SinkIdle

\* the MapSerializer still takes calls: no call has panicked and end has not run
MsOpen ==
    /\ ms_n < MaxCalls
    /\ ms_last.op # "end"
    /\ ms_last.op # "none" => ms_last.ret # Panic

MsCall(op, c) ==
    /\ MsOpen
    /\ ms_prev' = ms_buf
    /\ ms_buf' = c.buf
    /\ ms_last' = [op |-> op, ret |-> c.ret]
    /\ ms_n' = ms_n + 1
    /\ UNCHANGED <<overflow_checks, IntVars, FloatVars, DeVars, SinkVars,
                   StepVars, CodecVars, MapVars, ErrorVars>>

SerializeKey == \E k \in MsKeys : MsCall("key", MapSerializer_serialize_key(ms_buf, k))

SerializeValue ==
    \E v \in MsValues : MsCall("value", MapSerializer_serialize_value(ms_buf, v))

SerializeEntry ==
    \E k \in MsKeys, v \in MsValues :
        MsCall("entry", MapSerializer_serialize_entry(ms_buf, k, v))

MapEnd == MsCall("end", MapSerializer_end_buf(ms_buf))

NextMapSer == SerializeKey \/ SerializeValue \/ SerializeEntry \/ MapEnd

SpecMapSer == InitMapSer /\ [][NextMapSer]_vars

Waiting(buf) == {i \in DOMAIN buf : ~buf[i].val.some}

\* C22: serialize_value on a MapSerializer with no pair, or whose last pair
\* holds a value, panics and leaves every stored pair as it was; end panics
\* when a pair has no value; none of these calls returns an Err.
C22_ProtocolViolationsAbort ==
    /\ (ms_last.op = "value" /\ (ms_prev = <<>> \/ ms_prev[Len(ms_prev)].val.some)) =>
            /\ ms_last.ret = Panic
            /\ ms_buf = ms_prev
    /\ (ms_last.op = "end" /\ Waiting(ms_prev) # {}) => ms_last.ret = Panic

\* a second serialize_value after key a got 1 has panicked
C22_Witness ==
    /\ ms_last.op = "value"
    /\ ms_last.ret = Panic
    /\ Len(ms_prev) = 1 /\ ms_prev[1].val.some
    /\ ms_buf = ms_prev

\* C23 (as stated): while no call has aborted, every pair of the buffer except
\* possibly the last one holds a value.
C23_OnlyLastPairWaits ==
    (ms_last.op # "none" /\ ms_last.ret # Panic) =>
        \A i \in Waiting(ms_buf) : i = Len(ms_buf)

\* C23 (amended): serialize_key never aborts and pushes a pair without a value
\* whatever the pairs before it hold; serialize_value fills the last pair and
\* no other; serialize_entry pushes a pair with its value; so a pair that
\* waits while it is not the last one waits for good, and end aborts on it.
C23_WaitingPairs ==
    ms_last.op # "none" =>
        LET before == Waiting(ms_prev)
            after == Waiting(ms_buf)
            ok == ms_last.ret.res = "ok"
            n == Len(ms_prev)
        IN  CASE ms_last.op = "key" ->
                    /\ ms_last.ret # Panic
                    /\ after = IF ok THEN before \cup {n + 1} ELSE before
              [] ms_last.op = "value" ->
                    after = IF ok THEN before \ {n} ELSE before
              [] ms_last.op = "entry" ->
                    /\ ms_last.ret # Panic
                    /\ after = before
                    /\ Len(ms_buf) = IF ok THEN n + 1 ELSE n
              [] ms_last.op = "end" ->
                    /\ after = before
                    /\ before # {} <=> ms_last.ret = Panic

\* key a, key b, then a value: the value went to b and a waits for good
C23_Witness ==
    /\ ms_last.op = "value"
    /\ ms_last.ret.res = "ok"
    /\ Len(ms_buf) = 2
    /\ Waiting(ms_buf) = {1}

-----------------------------------------------------------------------------
(* SpecError: an Error with a Message code is displayed and the text handed   *)
(* to Error::custom (the round trip of erased-serde), or a caller hands       *)
(* Error::custom a string of its own.                                         *)

ErrorChars == {"1", "2", ":", "x"}

RECURSIVE StringsUpTo(_)
StringsUpTo(n) ==
    IF n = 0 THEN {<<>>}
    ELSE LET shorter == StringsUpTo(n - 1)
         IN  shorter \cup {Append(v, c) : v \in {w \in shorter : Len(w) = n - 1},
                                          c \in ErrorChars}

BAD_TOKEN == <<"b", "a", "d", " ", "t", "o", "k", "e", "n">>

ErrorMessages == {BAD_TOKEN, <<>>, <<"x">>, <<"1", ":", "2", ":", "x">>}
ErrorLines == {0, 3, 7, 12, 123}

InitError ==
    /\ \/ /\ err_from = "display"
          /\ err_pc = "new"
          /\ \E line \in ErrorLines, col \in ErrorLines, msg \in ErrorMessages :
                err_in = Error_Message(Position(line, col), msg)
          /\ err_text = <<>>
       \/ /\ err_from = "caller"
          /\ err_pc = "text"
          /\ err_in = Error_Message(Position_default, <<>>)
          /\ err_text \in StringsUpTo(MaxStrLen)
    /\ err_out = Pending
    /\ overflow_checks \in BOOLEAN
    /\ StepIdle /\ CodecIdle /\ MapIdle /\ AuxIdle

\* err.to_string(): impl Display for Error
Display ==
    /\ err_pc = "new"
    /\ err_text' = Error_fmt(err_in)
    /\ err_pc' = "text"
    /\ UNCHANGED <<err_in, err_from, err_out, overflow_checks, AuxVars, StepVars, CodecVars, MapVars>>

\* <Error as ser::Error>::custom(msg) / <Error as de::Error>::custom(msg)
Custom ==
    /\ err_pc = "text"
    /\ err_out' = Error_custom(err_text)
    /\ err_pc' = "built"
    /\ UNCHANGED <<err_in, err_from, err_text, overflow_checks, AuxVars, StepVars, CodecVars, MapVars>>

NextError == Display \/ Custom

SpecError == InitError /\ [][NextError]_vars

\* the index (from 1) of the n-th colon of v, or 0
RECURSIVE NthColon(_, _, _)
NthColon(v, n, i) ==
    IF i > Len(v) THEN 0
    ELSE IF v[i] = ":" THEN (IF n = 1 THEN i ELSE NthColon(v, n - 1, i + 1))
    ELSE NthColon(v, n, i + 1)

IsDecimal(v) == v # <<>> /\ \A i \in 1..Len(v) : IsDigit(v[i])

\* v starts with two decimal integers, each followed by a colon
TwoIntegerPrefix(v) ==
    LET c1 == NthColon(v, 1, 1)
        c2 == NthColon(v, 2, 1)
    IN  /\ c1 > 0
        /\ c2 > 0
        /\ IsDecimal(SubSeq(v, 1, c1 - 1))
        /\ IsDecimal(SubSeq(v, c1 + 1, c2 - 1))

\* C5: an Error with a position other than (0, 0), displayed and then rebuilt by
\* Error::custom from exactly that text, has the same position and the same message.
C5_DisplayCustomRoundTrip ==
    (err_pc = "built" /\ err_from = "display" /\ err_in.pos # Position_default)
        => err_out = Ok(err_in)

\* C6: Error::custom of a string that does not start with two decimal integers,
\* each followed by a colon, gives position (0, 0) and the whole string as message.
C6_NoPrefixKeepsWholeString ==
    (err_pc = "built" /\ ~TwoIntegerPrefix(err_text))
        => err_out = Ok(Error_Message(Position_default, err_text))

\* C28: Error::custom returns an Error for every string, strings with two or
\* more colons after a decimal first segment included: no slice it takes is
\* out of order or out of bounds.
C28_CustomIsTotal ==
    err_pc = "built" => err_out.res = "ok"

=============================================================================
